---- MODULE Spec2Model ----
(***************************************************************************)
(* vsjsonfmt: the lenient JSON(-with-comments) reader and the width-aware  *)
(* layout engine of src/vsjsonfmt/cli.py, with the convenience entry point *)
(* of src/src/vsjsonfmt/api.py.                                            *)
(*                                                                         *)
(* Text is a sequence of one-character strings.  A value tree is a record  *)
(* with a tag t: null, bool, num, str, arr (xs: sequence of values) or obj *)
(* (kvs: sequence of <<key, value>> pairs, keys unique, order kept).       *)
(***************************************************************************)
EXTENDS Integers, Sequences, FiniteSets, TLC

\* ------------------------------------------------------------------ text

NL == "\n"
CR == "\r"
QUOTE == "\""
BSL == "\\"

\* Python's None, for Optional[str] results and for parent_key: no text and
\* no key equals it, since those hold one-character strings only.
None == <<"None">>

RECURSIVE Cat(_)
\* "".join(parts)
Cat(parts) == IF parts = <<>> THEN <<>> ELSE Head(parts) \o Cat(Tail(parts))

RECURSIVE Join(_, _)
\* sep.join(parts)
Join(sep, parts) ==
  IF parts = <<>> THEN <<>>
  ELSE IF Len(parts) = 1 THEN parts[1]
  ELSE parts[1] \o sep \o Join(sep, Tail(parts))

\* " " * n  (the empty string when n <= 0)
Spaces(n) == [i \in 1..n |-> " "]

\* s.count("\n")
CountNL(s) == Cardinality({i \in 1..Len(s) : s[i] = NL})

\* "\n" in s
HasNL(s) == \E i \in 1..Len(s) : s[i] = NL

\* ---------------------------------------------------------------- values

VNull == [t |-> "null"]
VBool(b) == [t |-> "bool", b |-> b]
VNum(n) == [t |-> "num", n |-> n]
VStr(s) == [t |-> "str", s |-> s]
VArr(xs) == [t |-> "arr", xs |-> xs]
VObj(kvs) == [t |-> "obj", kvs |-> kvs]

_is_prim(x) == x.t \in {"null", "bool", "num", "str"}
IsList(x) == x.t = "arr"
IsDict(x) == x.t = "obj"

\* _keys_tuple(d): tuple(d.keys())
_keys_tuple(d) == [i \in 1..Len(d.kvs) |-> d.kvs[i][1]]

\* d.values()
DictValues(d) == [i \in 1..Len(d.kvs) |-> d.kvs[i][2]]

\* ------------------------------------------------- json.dumps of a value

DigitChars == <<"0", "1", "2", "3", "4", "5", "6", "7", "8", "9">>

RECURSIVE NatDigits(_)
NatDigits(n) ==
  IF n < 10 THEN <<DigitChars[n + 1]>>
  ELSE NatDigits(n \div 10) \o <<DigitChars[(n % 10) + 1]>>

\* json.dumps of an int
IntDigits(n) == IF n < 0 THEN <<"-">> \o NatDigits(-n) ELSE NatDigits(n)

\* json.dumps escapes one character of a string (the characters of the
\* model's alphabet: the ASCII range, where ensure_ascii changes nothing)
EscapeChar(c) ==
  IF c = QUOTE THEN <<BSL, QUOTE>>
  ELSE IF c = BSL THEN <<BSL, BSL>>
  ELSE IF c = NL THEN <<BSL, "n">>
  ELSE IF c = "\t" THEN <<BSL, "t">>
  ELSE IF c = "\r" THEN <<BSL, "r">>
  ELSE <<c>>

\* json.dumps(k) of a str
DumpStr(s) == <<QUOTE>> \o Cat([i \in 1..Len(s) |-> EscapeChar(s[i])]) \o <<QUOTE>>

RECURSIVE _dump_oneline(_)
\* json.dumps(val, ensure_ascii=False, separators=(",", ": "))
_dump_oneline(val) ==
  CASE val.t = "null" -> <<"n", "u", "l", "l">>
    [] val.t = "bool" -> IF val.b THEN <<"t", "r", "u", "e">>
                         ELSE <<"f", "a", "l", "s", "e">>
    [] val.t = "num" -> IntDigits(val.n)
    [] val.t = "str" -> DumpStr(val.s)
    [] val.t = "arr" ->
         <<"[">> \o Join(<<",">>, [i \in 1..Len(val.xs) |-> _dump_oneline(val.xs[i])])
                 \o <<"]">>
    [] val.t = "obj" ->
         <<"{">> \o Join(<<",">>, [i \in 1..Len(val.kvs) |->
                      DumpStr(val.kvs[i][1]) \o <<":", " ">>
                        \o _dump_oneline(val.kvs[i][2])])
                 \o <<"}">>

\* ---------------------------------------------------------- lenient reader

\* s[i:i+1] with i counted from 1: "" past the end
At(s, i) == IF i >= 1 /\ i <= Len(s) THEN s[i] ELSE ""

\* str.isspace() and json's WHITESPACE over the model's alphabet
IsSpace(c) == c \in {" ", NL, "\t", "\r"}

\* The text a sequence of kept positions selects
Select(s, kept) == [i \in 1..Len(kept) |-> s[kept[i]]]

\* The least element of a non-empty set of positions
MinOf(S) == CHOOSE x \in S : \A y \in S : x <= y

\* The first position from i on whose character is in the set cs, Len(s) + 1
\* when there is none
FirstIn(s, i, cs) ==
  LET S == {j \in i..Len(s) : s[j] \in cs}
  IN IF S = {} THEN Len(s) + 1 ELSE MinOf(S)

\* The positions a..b-1, in order
Range(a, b) == [x \in 1..(b - a) |-> a + x - 1]

RECURSIVE StringMatchEnd(_, _)
\* _STRING_RE matched from an opening quote: with j the position after the
\* opening quote or after the last repetition, the position after the
\* closing quote, or 0 when the pattern does not match from that quote.
\* [^"\\] takes every character up to the next quote or backslash; \\. takes
\* a backslash and one character that is not a line break.
StringMatchEnd(s, j) ==
  LET k == FirstIn(s, j, {QUOTE, BSL})
  IN IF k > Len(s) THEN 0
     ELSE IF s[k] = QUOTE THEN k + 1
     ELSE IF k + 1 <= Len(s) /\ s[k + 1] # NL THEN StringMatchEnd(s, k + 2)
     ELSE 0

RECURSIVE SubLineComments(_, _, _)
\* _SLASH_SLASH_COMMENT_RE.sub("", gap), gap = s[i..b-1]: the positions
\* kept.  A match starts at the first // and ends before the next line
\* break of the gap, or at the end of the gap.
SubLineComments(s, i, b) ==
  LET starts == {c \in i..(b - 2) : s[c] = "/" /\ s[c + 1] = "/"}
  IN IF starts = {} THEN Range(i, b)
     ELSE LET c == MinOf(starts)
              stops == {j \in (c + 2)..(b - 1) : s[j] = NL}
          IN Range(i, c)
               \o SubLineComments(s, IF stops = {} THEN b ELSE MinOf(stops), b)

RECURSIVE SubBlockComments(_, _, _)
\* _SLASH_STAR_COMMENT_RE.sub("", gap) on the text that the positions k
\* select, from the p-th of them on: the positions kept.  A match starts at
\* the first /* that a */ follows and ends with the first such */.
SubBlockComments(s, k, p) ==
  LET starts == {c \in p..(Len(k) - 1) : s[k[c]] = "/" /\ s[k[c + 1]] = "*"}
      ends(c) == {q \in (c + 2)..(Len(k) - 1) : s[k[q]] = "*" /\ s[k[q + 1]] = "/"}
  IN IF starts = {} \/ ends(MinOf(starts)) = {} THEN SubSeq(k, p, Len(k))
     ELSE SubSeq(k, p, MinOf(starts) - 1)
            \o SubBlockComments(s, k, MinOf(ends(MinOf(starts))) + 2)

\* Lines 27-29 and 33-35: both substitutions on the gap s[i..b-1]
CleanGap(s, i, b) == SubBlockComments(s, SubLineComments(s, i, b), 1)

RECURSIVE StripCommentsFrom(_, _, _)
\* The loop of _strip_comments over _STRING_RE.finditer: i is the end of the
\* last match, p the position the search for the next match has reached
StripCommentsFrom(s, i, p) ==
  LET q == FirstIn(s, p, {QUOTE})
  IN IF q > Len(s) THEN CleanGap(s, i, Len(s) + 1)
     ELSE IF StringMatchEnd(s, q + 1) # 0
       THEN CleanGap(s, i, q)
              \o Range(q, StringMatchEnd(s, q + 1))
              \o StripCommentsFrom(s, StringMatchEnd(s, q + 1), StringMatchEnd(s, q + 1))
     ELSE StripCommentsFrom(s, i, q + 1)

\* The positions of jsonc that _strip_comments keeps, in order
StripCommentsKept(s) == StripCommentsFrom(s, 1, 1)

_strip_comments(jsonc) == Select(jsonc, StripCommentsKept(jsonc))

RECURSIVE StringCloses(_, _)
\* Lines 44-49: from position j inside a string with escape unset, the
\* position of the quote that unsets in_string, Len(s) + 1 when none does
StringCloses(s, j) ==
  LET k == FirstIn(s, j, {QUOTE, BSL})
  IN IF k > Len(s) THEN Len(s) + 1
     ELSE IF s[k] = QUOTE THEN k
     ELSE IF k + 1 > Len(s) THEN Len(s) + 1
     ELSE StringCloses(s, k + 2)

RECURSIVE TrailingCommasNoLookBack(_, _, _)
\* TrailingCommasFrom that pops a comma only when it is the last character
\* appended, without looking back over whitespace
TrailingCommasNoLookBack(s, i, out) ==
  LET k == FirstIn(s, i, {QUOTE, "}", "]"})
      got == out \o Range(i, k)
  IN IF k > Len(s) THEN got
     ELSE IF s[k] = QUOTE
       THEN LET c == StringCloses(s, k + 1)
            IN IF c > Len(s) THEN got \o Range(k, Len(s) + 1)
               ELSE TrailingCommasNoLookBack(s, c + 1, got \o Range(k, c + 1))
     ELSE LET popped == IF got # <<>> /\ s[got[Len(got)]] = ","
                        THEN SubSeq(got, 1, Len(got) - 1)
                        ELSE got
          IN TrailingCommasNoLookBack(s, k + 1, Append(popped, k))

RECURSIVE TrailingCommasFrom(_, _, _)
\* The while loop of _strip_trailing_commas from position i with in_string
\* unset: out holds the positions of the characters appended so far.  Every
\* character is appended; a } or ] first pops the comma that only
\* whitespace separates from the end of out.
TrailingCommasFrom(s, i, out) ==
  LET k == FirstIn(s, i, {QUOTE, "}", "]"})
      got == out \o Range(i, k)
  IN IF k > Len(s) THEN got
     ELSE IF s[k] = QUOTE
       THEN LET c == StringCloses(s, k + 1)
            IN IF c > Len(s) THEN got \o Range(k, Len(s) + 1)
               ELSE TrailingCommasFrom(s, c + 1, got \o Range(k, c + 1))
     ELSE LET nonspace == {j \in 1..Len(got) : ~IsSpace(s[got[j]])}
              j == IF nonspace = {} THEN 0
                   ELSE CHOOSE x \in nonspace : \A y \in nonspace : y <= x
              popped == IF j >= 1 /\ s[got[j]] = ","
                        THEN SubSeq(got, 1, j - 1) \o SubSeq(got, j + 1, Len(got))
                        ELSE got
          IN TrailingCommasFrom(s, k + 1, Append(popped, k))

\* The positions of s that _strip_trailing_commas keeps, in order
StripTrailingCommasKept(s) == TrailingCommasFrom(s, 1, <<>>)

_strip_trailing_commas(s) == Select(s, StripTrailingCommasKept(s))

\* ----------------------------------------------------- the strict decoder
\* json.loads as parse_json_lenient calls it (line 63): the result is
\* [ok |-> TRUE, val, end] or [ok |-> FALSE, pos, msg], positions counted
\* from 1.  Numbers are the integers; the model's alphabet has no fraction,
\* exponent, NaN or \u escape.

Ok(v, e) == [ok |-> TRUE, val |-> v, end |-> e]
Err(m, p) == [ok |-> FALSE, msg |-> m, pos |-> p]

\* WHITESPACE.match(s, i).end()
SkipWs(s, i) ==
  LET S == {j \in i..Len(s) : ~IsSpace(s[j])}
  IN IF S = {} THEN (IF i > Len(s) THEN i ELSE Len(s) + 1) ELSE MinOf(S)

IsDigit(c) == c \in {"0", "1", "2", "3", "4", "5", "6", "7", "8", "9"}

DigitVal(c) == CHOOSE d \in 0..9 : DigitChars[d + 1] = c

\* The end of the digits that start at i
DigitsEnd(s, i) ==
  LET S == {j \in i..Len(s) : ~IsDigit(s[j])}
  IN IF S = {} THEN Len(s) + 1 ELSE MinOf(S)

RECURSIVE DigitsVal(_, _, _)
\* int() of the digits s[i..e-1]
DigitsVal(s, i, e) ==
  IF i >= e THEN 0 ELSE DigitsVal(s, i, e - 1) * 10 + DigitVal(s[e - 1])

\* NUMBER_RE matched at i: -?(0|[1-9]\d*), the end of the match or 0
NumberEnd(s, i) ==
  LET d == IF At(s, i) = "-" THEN i + 1 ELSE i
  IN IF At(s, d) = "0" THEN d + 1
     ELSE IF IsDigit(At(s, d)) THEN DigitsEnd(s, d)
     ELSE 0

\* The character a backslash escape stands for, "" for none
Unescape(c) ==
  CASE c = QUOTE -> QUOTE
    [] c = BSL -> BSL
    [] c = "/" -> "/"
    [] c = "n" -> NL
    [] c = "t" -> "\t"
    [] c = "r" -> "\r"
    [] c = "b" -> "<BS>"
    [] c = "f" -> "\f"
    [] OTHER -> ""

RECURSIVE ScanString(_, _, _, _)
\* scanstring(s, end) with strict=True: begin is the opening quote, j the
\* position reached, acc the characters decoded so far.  STRINGCHUNK takes
\* the characters up to the next quote, backslash or control character.
ScanString(s, begin, j, acc) ==
  LET k == FirstIn(s, j, {QUOTE, BSL, NL, "\t", "\r"})
      got == acc \o SubSeq(s, j, k - 1)
  IN IF k > Len(s) THEN Err("Unterminated string starting at", begin)
     ELSE IF s[k] = QUOTE THEN Ok(got, k + 1)
     ELSE IF s[k] # BSL THEN Err("Invalid control character at", k)
     ELSE IF k + 1 > Len(s) THEN Err("Unterminated string starting at", begin)
     ELSE IF Unescape(s[k + 1]) = "" THEN Err("Invalid \\escape", k)
     ELSE ScanString(s, begin, k + 2, Append(got, Unescape(s[k + 1])))

\* s[i:i+n] == word
Literal(s, i, word) ==
  i + Len(word) - 1 <= Len(s) /\ SubSeq(s, i, i + Len(word) - 1) = word

\* dict(pairs) keeps the place of a key's first occurrence and the value
\* of its last
DictSet(kvs, k, v) ==
  IF \E i \in 1..Len(kvs) : kvs[i][1] = k
  THEN [i \in 1..Len(kvs) |-> IF kvs[i][1] = k THEN <<k, v>> ELSE kvs[i]]
  ELSE Append(kvs, <<k, v>>)

RECURSIVE ScanOnce(_, _)
RECURSIVE ArrayLoop(_, _, _)
RECURSIVE ObjectLoop(_, _, _)

\* JSONArray after its look-ahead for the empty array: i is where the next
\* element starts
ArrayLoop(s, i, values) ==
  LET r == ScanOnce(s, i)
  IN IF ~r.ok THEN r
     ELSE LET e == SkipWs(s, r.end)
              vs == Append(values, r.val)
          IN IF At(s, e) = "]" THEN Ok(VArr(vs), e + 1)
             ELSE IF At(s, e) # "," THEN Err("Expecting ',' delimiter", e)
             ELSE ArrayLoop(s, SkipWs(s, e + 1), vs)

\* JSONObject's loop: i is the position after the opening quote of a key
ObjectLoop(s, i, pairs) ==
  LET k == ScanString(s, i - 1, i, <<>>)
  IN IF ~k.ok THEN k
     ELSE LET c == SkipWs(s, k.end)
          IN IF At(s, c) # ":" THEN Err("Expecting ':' delimiter", c)
             ELSE LET r == ScanOnce(s, SkipWs(s, c + 1))
                  IN IF ~r.ok THEN r
                     ELSE LET e == SkipWs(s, r.end)
                              ps == DictSet(pairs, k.val, r.val)
                          IN IF At(s, e) = "}" THEN Ok(VObj(ps), e + 1)
                             ELSE IF At(s, e) # ","
                               THEN Err("Expecting ',' delimiter", e)
                             ELSE LET q == SkipWs(s, e + 1)
                                  IN IF At(s, q) # QUOTE
                                     THEN Err("Expecting property name enclosed in double quotes", q)
                                     ELSE ObjectLoop(s, q + 1, ps)

\* scan_once(s, idx); StopIteration becomes "Expecting value"
ScanOnce(s, i) ==
  LET c == At(s, i)
  IN IF c = QUOTE THEN
       LET r == ScanString(s, i, i + 1, <<>>)
       IN IF r.ok THEN Ok(VStr(r.val), r.end) ELSE r
     ELSE IF c = "{" THEN
       LET q == SkipWs(s, i + 1)
       IN IF At(s, q) = "}" THEN Ok(VObj(<<>>), q + 1)
          ELSE IF At(s, q) # QUOTE
            THEN Err("Expecting property name enclosed in double quotes", q)
          ELSE ObjectLoop(s, q + 1, <<>>)
     ELSE IF c = "[" THEN
       LET q == SkipWs(s, i + 1)
       IN IF At(s, q) = "]" THEN Ok(VArr(<<>>), q + 1)
          ELSE ArrayLoop(s, q, <<>>)
     ELSE IF Literal(s, i, <<"n", "u", "l", "l">>) THEN Ok(VNull, i + 4)
     ELSE IF Literal(s, i, <<"t", "r", "u", "e">>) THEN Ok(VBool(TRUE), i + 4)
     ELSE IF Literal(s, i, <<"f", "a", "l", "s", "e">>) THEN Ok(VBool(FALSE), i + 5)
     ELSE IF NumberEnd(s, i) # 0 THEN
       LET d == IF s[i] = "-" THEN i + 1 ELSE i
           n == DigitsVal(s, d, NumberEnd(s, i))
       IN Ok(VNum(IF s[i] = "-" THEN -n ELSE n), NumberEnd(s, i))
     ELSE Err("Expecting value", i)

\* JSONDecoder.decode: one value, then only whitespace
JsonLoads(s) ==
  LET r == ScanOnce(s, SkipWs(s, 1))
  IN IF ~r.ok THEN r
     ELSE IF SkipWs(s, r.end) # Len(s) + 1 THEN Err("Extra data", SkipWs(s, r.end))
     ELSE r

\* JSONDecodeError.lineno and .colno of position pos (counted from 1)
LineNo(s, pos) == Cardinality({i \in 1..(pos - 1) : i <= Len(s) /\ s[i] = NL}) + 1

ColNo(s, pos) ==
  LET nls == {i \in 1..(pos - 1) : i <= Len(s) /\ s[i] = NL}
  IN IF nls = {} THEN pos
     ELSE pos - (CHOOSE x \in nls : \A y \in nls : y <= x)

\* parse_json_lenient(text): the decoder's result on the cleaned text
parse_json_lenient(text) == JsonLoads(_strip_trailing_commas(_strip_comments(text)))

\* ---------------------------------------------------------- FormatConfig

\* FormatConfig(): the dataclass defaults
DefaultCollapseKeys ==
  { <<"r","e","q","u","i","r","e","S","t","a","c","k","s">>,
    <<"a","d","d","E","l","e","m","e","n","t","s">>,
    <<"r","e","m","o","v","e","E","l","e","m","e","n","t","s">>,
    <<"i","n","g","r","e","d","i","e","n","t","s">>,
    <<"o","u","t","p","u","t","s">>,
    <<"d","r","o","p","s">> }

FormatConfig ==
  [ indent |-> 2,
    print_width |-> 120,
    array_wrap |-> "collapse",
    object_wrap |-> "collapse",
    aggressive_inline |-> TRUE,
    long_block_threshold |-> 20,
    eol |-> <<NL>>,
    array_collapse_keys |-> DefaultCollapseKeys,
    inline_homogeneous_objects |-> TRUE,
    inline_homogeneous_min |-> 3,
    inline_string_max |-> 120,
    allow_overflow_inline_arrays |-> TRUE ]

\* ---------------------------------------------------------- layout engine

\* _fits_width that measures the line one level deeper than it is asked to
FitsWidthChildLevel(s, cfg, level) == Len(s) + (level + 1) * cfg.indent <= cfg.print_width

\* _fits_width with < for <=
FitsWidthStrict(s, cfg, level) == Len(s) + level * cfg.indent < cfg.print_width

_fits_width(s, cfg, level) == Len(s) + level * cfg.indent <= cfg.print_width

_line_count(s) == CountNL(s) + 1

_is_small_prim(v, cfg) ==
  IF ~_is_prim(v) THEN FALSE
  ELSE IF v.t = "str" /\ Len(v.s) > cfg.inline_string_max THEN FALSE
  ELSE TRUE

\* _array_is_homog_small_objs comparing the elements' keys as sets
HomogByKeySet(arr, cfg) ==
  /\ Len(arr.xs) >= 1
  /\ Len(arr.xs) >= cfg.inline_homogeneous_min
  /\ \A i \in 1..Len(arr.xs) : arr.xs[i].t = "obj"
  /\ arr.xs[1].kvs # <<>>
  /\ \A i \in 1..Len(arr.xs) :
       /\ {arr.xs[i].kvs[j][1] : j \in 1..Len(arr.xs[i].kvs)}
            = {arr.xs[1].kvs[j][1] : j \in 1..Len(arr.xs[1].kvs)}
       /\ Len(arr.xs[i].kvs) = Len(arr.xs[1].kvs)
       /\ \A j \in 1..Len(arr.xs[i].kvs) :
            /\ arr.xs[i].kvs[j][2].t \in {"null", "bool", "num", "str"}
            /\ (arr.xs[i].kvs[j][2].t = "str"
                  => Len(arr.xs[i].kvs[j][2].s) <= cfg.inline_string_max)

\* _array_is_homog_small_objs(arr, cfg)[0]
_array_is_homog_small_objs(arr, cfg) ==
  IF Len(arr.xs) = 0 \/ Len(arr.xs) < cfg.inline_homogeneous_min THEN FALSE
  ELSE IF ~(\A i \in 1..Len(arr.xs) : IsDict(arr.xs[i])) THEN FALSE
  ELSE IF _keys_tuple(arr.xs[1]) = <<>> THEN FALSE
  ELSE \A i \in 1..Len(arr.xs) :
         /\ _keys_tuple(arr.xs[i]) = _keys_tuple(arr.xs[1])
         /\ \A j \in 1..Len(arr.xs[i].kvs) : _is_small_prim(arr.xs[i].kvs[j][2], cfg)

\* _array_is_homog_small_objs(arr, cfg)[1]
HomogKeyOrder(arr, cfg) ==
  IF _array_is_homog_small_objs(arr, cfg) THEN _keys_tuple(arr.xs[1]) ELSE <<>>

\* d[k] of a dict
DictGet(d, k) == d.kvs[CHOOSE i \in 1..Len(d.kvs) : d.kvs[i][1] = k][2]

\* "key: value" of one member with a primitive value
MemberLine(k, v) == DumpStr(k) \o <<":", " ">> \o _dump_oneline(v)

_compact_object(d, cfg) ==
  IF \E i \in 1..Len(d.kvs) : ~_is_small_prim(d.kvs[i][2], cfg) THEN None
  ELSE <<"{", " ">>
         \o Join(<<",", " ">>,
                 [i \in 1..Len(d.kvs) |-> MemberLine(d.kvs[i][1], d.kvs[i][2])])
         \o <<" ", "}">>

RECURSIVE CompactListMustFit(_, _, _)
\* _compact_list that rejects a line that does not fit, whatever
\* allow_overflow_inline_arrays is
CompactListMustFit(lst, cfg, level) ==
  LET part(el) ==
        IF _is_prim(el) THEN _dump_oneline(el)
        ELSE IF IsDict(el) THEN _compact_object(el, cfg)
        ELSE CompactListMustFit(el, cfg, level)
      parts == [i \in 1..Len(lst.xs) |-> part(lst.xs[i])]
      one == <<"[", " ">> \o Join(<<",", " ">>, parts) \o <<" ", "]">>
  IN IF \E i \in 1..Len(parts) : parts[i] = None THEN None
     ELSE IF _fits_width(one, cfg, level) THEN one ELSE None

RECURSIVE _compact_list(_, _, _)
_compact_list(lst, cfg, level) ==
  LET part(el) ==
        IF _is_prim(el) THEN _dump_oneline(el)
        ELSE IF IsDict(el) THEN _compact_object(el, cfg)
        ELSE _compact_list(el, cfg, level)
      parts == [i \in 1..Len(lst.xs) |-> part(lst.xs[i])]
      one == <<"[", " ">> \o Join(<<",", " ">>, parts) \o <<" ", "]">>
  IN IF \E i \in 1..Len(parts) : parts[i] = None THEN None
     ELSE IF _fits_width(one, cfg, level) \/ cfg.allow_overflow_inline_arrays
          THEN one ELSE None

\* Lines 162-175: the compact form of one element of an array under a
\* collapse key, None where the loop breaks
ElemString(el, cfg, level) ==
  IF _is_prim(el) THEN _dump_oneline(el)
  ELSE IF IsDict(el) THEN _compact_object(el, cfg)
  ELSE _compact_list(el, cfg, level + 1)

\* Block that joins the lines without the commas
BlockNoCommas(open, close, parts, cfg, level) ==
  <<open, NL>>
    \o Join(<<NL>>,
            [i \in 1..Len(parts) |-> Spaces(cfg.indent * (level + 1)) \o parts[i]])
    \o <<NL>> \o Spaces(cfg.indent * level) \o <<close>>

\* "[\n" + ",\n".join(child + s for s in parts) + "\n" + indent + "]"
Block(open, close, parts, cfg, level) ==
  <<open, NL>>
    \o Join(<<",", NL>>,
            [i \in 1..Len(parts) |-> Spaces(cfg.indent * (level + 1)) \o parts[i]])
    \o <<NL>> \o Spaces(cfg.indent * level) \o <<close>>

\* Line 194
PrimOneLine(val) ==
  <<"[">> \o Join(<<",", " ">>, [i \in 1..Len(val.xs) |-> _dump_oneline(val.xs[i])])
          \o <<"]">>

\* PrimCollapseApplies that takes the array of no element too
PrimCollapseOfEmpty(val, cfg, level) ==
  /\ cfg.array_wrap = "collapse"
  /\ \A i \in 1..Len(val.xs) : _is_prim(val.xs[i])
  /\ _fits_width(PrimOneLine(val), cfg, level)
  /\ _line_count(PrimOneLine(val)) <= cfg.long_block_threshold

\* Lines 193-196: strategy 3 applies
PrimCollapseApplies(val, cfg, level) ==
  /\ cfg.array_wrap = "collapse"
  /\ Len(val.xs) > 0
  /\ \A i \in 1..Len(val.xs) : _is_prim(val.xs[i])
  /\ _fits_width(PrimOneLine(val), cfg, level)
  /\ _line_count(PrimOneLine(val)) <= cfg.long_block_threshold

\* Lines 155: isinstance(parent_key, str) and parent_key in cfg.array_collapse_keys
UnderCollapseKey(cfg, parent_key) ==
  parent_key # None /\ parent_key \in cfg.array_collapse_keys

\* WholeInlineApplies that gives way to the plain primitive collapse
WholeInlineAfterPrimCollapse(val, cfg, level, parent_key) ==
  /\ parent_key # None /\ parent_key \in cfg.array_collapse_keys
  /\ _compact_list(val, cfg, level) # None
  /\ ~PrimCollapseApplies(val, cfg, level)

\* Lines 157-159: strategy 1(a) applies
WholeInlineApplies(val, cfg, level, parent_key) ==
  UnderCollapseKey(cfg, parent_key) /\ _compact_list(val, cfg, level) # None

\* PerElementApplies that keeps the lines of the elements before the break
PerElementUntilBreak(val, cfg, level, parent_key) ==
  /\ UnderCollapseKey(cfg, parent_key)
  /\ _compact_list(val, cfg, level) = None
  /\ Len(val.xs) > 0
  /\ ElemString(val.xs[1], cfg, level) # None

\* Lines 162-178: strategy 1(b) applies (the for loop ends without break)
PerElementApplies(val, cfg, level, parent_key) ==
  /\ UnderCollapseKey(cfg, parent_key)
  /\ _compact_list(val, cfg, level) = None
  /\ \A i \in 1..Len(val.xs) : ElemString(val.xs[i], cfg, level) # None

\* HomogApplies that also asks the array's one-line form to fit the width
HomogAppliesIfFits(val, cfg) ==
  /\ cfg.inline_homogeneous_objects
  /\ _array_is_homog_small_objs(val, cfg)
  /\ Len(_dump_oneline(val)) <= cfg.print_width

\* Lines 182-184: strategy 2 applies
HomogApplies(val, cfg) ==
  cfg.inline_homogeneous_objects /\ _array_is_homog_small_objs(val, cfg)

\* ObjectCollapseTried that does not read object_wrap
ObjectCollapseAlways(val, cfg) ==
  /\ ((\A i \in 1..Len(val.kvs) : _is_prim(val.kvs[i][2])) \/ cfg.aggressive_inline)
  /\ Len(val.kvs) > 0

\* ObjectCollapseTried that does not read aggressive_inline
ObjectCollapseAnyMember(val, cfg) ==
  /\ cfg.object_wrap = "collapse"
  /\ Len(val.kvs) > 0

\* Line 210: the collapse attempt of an object is made
ObjectCollapseTried(val, cfg) ==
  /\ cfg.object_wrap = "collapse"
  /\ ((\A i \in 1..Len(val.kvs) : _is_prim(val.kvs[i][2])) \/ cfg.aggressive_inline)
  /\ Len(val.kvs) > 0

RECURSIVE _format_value(_, _, _, _)
RECURSIVE ObjectOneLine(_, _, _)

\* ObjectOneLine that lets the line overflow the width as _compact_list
\* does under allow_overflow_inline_arrays
ObjectOneLineMayOverflow(val, cfg, level) ==
  LET items == val.kvs
      candidate(i) ==
        IF _is_prim(items[i][2]) THEN _dump_oneline(items[i][2])
        ELSE _format_value(items[i][2], cfg, level, items[i][1])
      one == <<"{", " ">>
               \o Join(<<",", " ">>,
                       [i \in 1..Len(items) |-> DumpStr(items[i][1]) \o <<":", " ">>
                                                  \o candidate(i)])
               \o <<" ", "}">>
  IN IF ~ObjectCollapseTried(val, cfg) THEN None
     ELSE IF \E i \in 1..Len(items) : HasNL(candidate(i)) THEN None
     ELSE IF /\ _fits_width(one, cfg, level) \/ cfg.allow_overflow_inline_arrays
             /\ _line_count(one) <= cfg.long_block_threshold
       THEN one
     ELSE None

\* Lines 209-224: the single line of the object collapse, None when the
\* attempt is not made, a member spans lines or the line is rejected
ObjectOneLine(val, cfg, level) ==
  LET items == val.kvs
      candidate(i) ==
        IF _is_prim(items[i][2]) THEN _dump_oneline(items[i][2])
        ELSE _format_value(items[i][2], cfg, level, items[i][1])
      one == <<"{", " ">>
               \o Join(<<",", " ">>,
                       [i \in 1..Len(items) |-> DumpStr(items[i][1]) \o <<":", " ">>
                                                  \o candidate(i)])
               \o <<" ", "}">>
  IN IF ~ObjectCollapseTried(val, cfg) THEN None
     ELSE IF \E i \in 1..Len(items) : HasNL(candidate(i)) THEN None
     ELSE IF _fits_width(one, cfg, level) /\ _line_count(one) <= cfg.long_block_threshold
       THEN one
     ELSE None

\* Lines 181-190: one compact object per line, in the first element's key order
HomogBlock(val, cfg, level) ==
  LET key_order == HomogKeyOrder(val, cfg)
      el_sorted(el) == VObj([j \in 1..Len(key_order) |->
                               <<key_order[j], DictGet(el, key_order[j])>>])
  IN Block("[", "]",
           [i \in 1..Len(val.xs) |-> _compact_object(el_sorted(val.xs[i]), cfg)],
           cfg, level)

_format_value(val, cfg, level, parent_key) ==
  IF _is_prim(val) THEN _dump_oneline(val)
  ELSE IF IsList(val) THEN
    IF WholeInlineApplies(val, cfg, level, parent_key)
      THEN _compact_list(val, cfg, level)
    ELSE IF PerElementApplies(val, cfg, level, parent_key)
      THEN Block("[", "]",
                 [i \in 1..Len(val.xs) |-> ElemString(val.xs[i], cfg, level)],
                 cfg, level)
    ELSE IF HomogApplies(val, cfg)
      THEN HomogBlock(val, cfg, level)
    ELSE IF PrimCollapseApplies(val, cfg, level)
      THEN PrimOneLine(val)
    ELSE Block("[", "]",
               [i \in 1..Len(val.xs) |-> _format_value(val.xs[i], cfg, level + 1, None)],
               cfg, level)
  ELSE IF ObjectOneLine(val, cfg, level) # None
    THEN ObjectOneLine(val, cfg, level)
  ELSE Block("{", "}",
             [i \in 1..Len(val.kvs) |->
                DumpStr(val.kvs[i][1]) \o <<":", " ">>
                  \o _format_value(val.kvs[i][2], cfg, level + 1, val.kvs[i][1])],
             cfg, level)

RECURSIVE EmittedCalls(_, _, _, _)
\* The calls <<val, level, parent_key>> of _format_value whose results are
\* part of the result of the call (val, cfg, level, parent_key): the call
\* itself; under the default forms the calls of lines 201 and 229; under
\* the object collapse the calls of line 216.  The compact array forms
\* render their elements without a call.
EmittedCalls(val, cfg, level, parent_key) ==
  {<<val, level, parent_key>>} \cup
  IF _is_prim(val) THEN {}
  ELSE IF IsList(val) THEN
    IF \/ WholeInlineApplies(val, cfg, level, parent_key)
       \/ PerElementApplies(val, cfg, level, parent_key)
       \/ HomogApplies(val, cfg)
       \/ PrimCollapseApplies(val, cfg, level)
    THEN {}
    ELSE UNION {EmittedCalls(val.xs[i], cfg, level + 1, None) : i \in 1..Len(val.xs)}
  ELSE IF ObjectOneLine(val, cfg, level) # None
    THEN UNION {EmittedCalls(val.kvs[i][2], cfg, level, val.kvs[i][1]) :
                  i \in {j \in 1..Len(val.kvs) : ~_is_prim(val.kvs[j][2])}}
  ELSE UNION {EmittedCalls(val.kvs[i][2], cfg, level + 1, val.kvs[i][1]) :
                i \in 1..Len(val.kvs)}

\* format_json that ends the text with two eols
FormatJsonTwoEols(data, cfg) == _format_value(data, cfg, 0, None) \o cfg.eol \o cfg.eol

format_json(data, cfg) == _format_value(data, cfg, 0, None) \o cfg.eol

\* ------------------------------------------------------------- the inputs

MaxItems == 2
MaxTokens == 4

KA == <<"a">>
KB == <<"b">>
KDrops == <<"d", "r", "o", "p", "s">>
SA == <<"a">>
\* A string of comment-like and comma-bracket sequences, with a quote in it
SOdd == <<"/", "/", ",", "}", QUOTE>>

\* Sequences over S of length lo..hi
SeqsOf(S, lo, hi) == UNION {[1..n -> S] : n \in lo..hi}

ArrayPrims == {VNum(12), VStr(SOdd)}
MemberPrims == {VNum(12), VStr(SOdd)}

\* Arrays of primitives
FlatArrays == {VArr(xs) : xs \in SeqsOf(ArrayPrims, 0, MaxItems)}

\* Objects of primitives: no member, one member, two members in either order
FlatObjects ==
  {VObj(<<>>)}
    \cup {VObj(<< <<k, v>> >>) : k \in {KA, KB}, v \in MemberPrims}
    \cup {VObj(<< <<KA, v>>, <<KB, w>> >>) : v \in MemberPrims, w \in MemberPrims}
    \cup {VObj(<< <<KB, v>>, <<KA, w>> >>) : v \in MemberPrims, w \in MemberPrims}

\* Elements of arrays of objects: one key, two keys in either order with a
\* string that may be too long, no key at all
ObjectElems ==
  { VObj(<< <<KA, VNum(12)>> >>),
    VObj(<< <<KA, VNum(12)>>, <<KB, VStr(SOdd)>> >>),
    VObj(<< <<KB, VStr(SOdd)>>, <<KA, VNum(12)>> >>),
    VObj(<<>>) }

ObjectArrays == {VArr(xs) : xs \in SeqsOf(ObjectElems, 2, MaxItems)}

MixedElems ==
  { VNum(12),
    VArr(<<>>),
    VArr(<<VNum(12), VStr(SA)>>),
    VObj(<< <<KA, VArr(<<VNum(12)>>)>> >>) }

MixedArrays == {VArr(xs) : xs \in SeqsOf(MixedElems, 1, 2)}

Containers == FlatArrays \cup FlatObjects \cup ObjectArrays \cup MixedArrays

\* The example of the collapse-key scenario:
\* {"requireStacks":[{"code":"x"},{"code":"y"}]}
KRequireStacks == <<"r","e","q","u","i","r","e","S","t","a","c","k","s">>
KCode == <<"c", "o", "d", "e">>
RequireStacksExample ==
  VObj(<< <<KRequireStacks,
            VArr(<< VObj(<< <<KCode, VStr(<<"x">>)>> >>),
                    VObj(<< <<KCode, VStr(<<"y">>)>> >>) >>)>> >>)

\* The value trees of the model: primitives, containers, and containers as
\* a member under a plain key, under a collapse key, beside a primitive
\* member, as an array element and two objects deep
Values ==
  {VNull, VBool(FALSE), VNum(12), VStr(SOdd)}
    \cup Containers
    \cup {VObj(<< <<k, x>> >>) : k \in {KA, KDrops}, x \in Containers}
    \cup {VObj(<< <<KA, VNum(12)>>, <<KDrops, x>> >>) : x \in Containers}
    \cup {VArr(<<x>>) : x \in Containers}
    \cup {VObj(<< <<KA, VObj(<< <<KDrops, x>> >>)>> >>) : x \in Containers}
    \cup {RequireStacksExample}

\* The configurations of the model: the defaults; the defaults at narrow
\* widths with the homogeneous rule from two elements on; and every
\* combination of the options the strategies read, with a short
\* inline_string_max; the defaults with a two-character eol; the defaults
\* with a long_block_threshold that no block meets
Configs ==
  {FormatConfig, [FormatConfig EXCEPT !.eol = <<CR, NL>>],
   [FormatConfig EXCEPT !.long_block_threshold = 0]}
    \cup {[FormatConfig EXCEPT !.print_width = w,
                               !.inline_homogeneous_min = 2,
                               !.allow_overflow_inline_arrays = o] :
            w \in {10, 24}, o \in BOOLEAN}
    \cup [ indent : {2},
           print_width : {10, 24},
           array_wrap : {"collapse", "preserve"},
           object_wrap : {"collapse", "preserve"},
           aggressive_inline : BOOLEAN,
           long_block_threshold : {20},
           eol : {<<NL>>},
           array_collapse_keys : {DefaultCollapseKeys},
           inline_homogeneous_objects : BOOLEAN,
           inline_homogeneous_min : {2},
           inline_string_max : {4},
           allow_overflow_inline_arrays : BOOLEAN ]

RECURSIVE WriteJsonc(_)
\* A JSONC document of the value v: a trailing comma in every non-empty
\* container
WriteJsonc(v) ==
  CASE v.t = "arr" ->
         <<"[">> \o Cat([i \in 1..Len(v.xs) |-> WriteJsonc(v.xs[i]) \o <<",">>])
                 \o <<"]">>
    [] v.t = "obj" ->
         <<"{">> \o Cat([i \in 1..Len(v.kvs) |->
                      DumpStr(v.kvs[i][1]) \o <<":">> \o WriteJsonc(v.kvs[i][2])
                        \o <<",">>])
                 \o <<"}">>
    [] OTHER -> _dump_oneline(v)

\* The documents of the model: each value tree behind a block comment
Documents == {<<"/", "*", "c", "*", "/">> \o WriteJsonc(v) : v \in Values}

\* The pieces that the texts of the reader's model are made of
Tokens ==
  { <<QUOTE>>, <<BSL>>, <<"/", "/">>, <<"/", "*">>, <<"*", "/">>, <<NL>>, <<" ">>,
    <<",">>, <<"[">>, <<"]">>, <<"1">>,
    <<QUOTE, "/", "/", ",", "]", QUOTE>> }

Texts == {Cat(ts) : ts \in SeqsOf(Tokens, 0, MaxTokens)}

\* ------------------------------------------------------------- the stack

RECURSIVE Depth(_)
\* The nesting depth of the tree v: 0 for a primitive
Depth(v) ==
  LET sub == IF v.t = "arr" THEN {Depth(v.xs[i]) : i \in 1..Len(v.xs)}
             ELSE IF v.t = "obj" THEN {Depth(v.kvs[i][2]) : i \in 1..Len(v.kvs)}
             ELSE {}
  IN IF _is_prim(v) THEN 0
     ELSE IF sub = {} THEN 1
     ELSE 1 + CHOOSE d \in sub : \A e \in sub : e <= d

\* The calls the interpreter lets nest before it raises RecursionError:
\* sys.getrecursionlimit(), 1000 in CPython, scaled down
RecursionLimit == 4

\* json.loads nests one call for every array or object that is open
ParseOverflows(v) == Depth(v) > RecursionLimit

\* _format_value nests one call for every value on the way to the
\* innermost one (lines 201, 216 and 229)
RenderOverflows(v) == Depth(v) + 1 > RecursionLimit

\* ----------------------------------------------- the module-level objects

\* DEFAULT_CONFIG, lines 240-255: a dict, with no "eol" key
DEFAULT_CONFIG ==
  [ indent |-> 2,
    print_width |-> 120,
    array_wrap |-> "collapse",
    object_wrap |-> "collapse",
    aggressive_inline |-> TRUE,
    long_block_threshold |-> 20,
    array_collapse_keys |-> DefaultCollapseKeys,
    inline_homogeneous_objects |-> TRUE,
    inline_homogeneous_min |-> 3,
    inline_string_max |-> 120,
    allow_overflow_inline_arrays |-> TRUE ]

\* The objects that exist once the modules are imported: api.DEFAULT_CFG =
\* FormatConfig() and cli.DEFAULT_CONFIG
ModuleHeap ==
  [id \in {"DEFAULT_CFG", "DEFAULT_CONFIG"} |->
     IF id = "DEFAULT_CFG" THEN FormatConfig ELSE DEFAULT_CONFIG]

\* dict.update: the keys of d and of other, other's values first
DictUpdate(d, other) ==
  [k \in DOMAIN d \cup DOMAIN other |-> IF k \in DOMAIN other THEN other[k] ELSE d[k]]

\* d[k] = v
DictStore(d, k, v) == [j \in DOMAIN d \cup {k} |-> IF j = k THEN v ELSE d[j]]

\* The heap with the object id set to obj, allocated if it is new
HeapStore(h, id, obj) == [j \in DOMAIN h \cup {id} |-> IF j = id THEN obj ELSE h[j]]

\* FormatConfig(**d): the dataclass defaults under the keys of d; a key that
\* is no field raises TypeError
FormatConfigFrom(d) ==
  IF DOMAIN d \subseteq DOMAIN FormatConfig
  THEN [ok |-> TRUE,
        val |-> [k \in DOMAIN FormatConfig |-> IF k \in DOMAIN d THEN d[k] ELSE FormatConfig[k]]]
  ELSE [ok |-> FALSE, val |-> FormatConfig]

\* -------------------------------------------------------- the state machine

VARIABLES
  pc,           \* text | parsed | error | formatted
  pass,         \* 1: the input text; 2: the formatted text, formatted again
  text,         \* the text passed to parse_json_lenient
  cfg,          \* the FormatConfig of the call
  no_comments,  \* parse_json_lenient's no_comments
  no_trailing,  \* parse_json_lenient's no_trailing
  data,         \* json.loads's result
  out,          \* format_json's result
  first,        \* the value tree and the formatted text of pass 1
  heap,         \* the objects that calls share by reference: the module-level
                \* DEFAULT_CFG and DEFAULT_CONFIG, each call's dict and FormatConfig
  calls         \* the calls of format_text, format_json and main in flight

vars == <<pc, pass, text, cfg, no_comments, no_trailing, data, out, first,
          heap, calls>>

NotYet == Err("", 0)

Start(t, c) ==
  /\ pc = "text"
  /\ pass = 1
  /\ text = t
  /\ cfg = c
  /\ no_comments = <<>>
  /\ no_trailing = <<>>
  /\ data = NotYet
  /\ out = <<>>
  /\ first = [val |-> VNull, out |-> <<>>]
  /\ heap = ModuleHeap
  /\ calls = <<>>

\* A document of the model under a configuration of the model
Init == \E t \in Documents, c \in Configs : Start(t, c)

\* Any text of the model's pieces under the default configuration
InitText == \E t \in Texts : Start(t, FormatConfig)

\* No text is in the pipeline: the state is that of the calls alone
NoPipeline ==
  /\ pc = "idle"
  /\ pass = 1
  /\ text = <<>>
  /\ cfg = FormatConfig
  /\ no_comments = <<>>
  /\ no_trailing = <<>>
  /\ data = NotYet
  /\ out = <<>>
  /\ first = [val |-> VNull, out |-> <<>>]

\* parse_json_lenient(text), lines 60-63
Parse ==
  /\ pc = "text"
  /\ no_comments' = _strip_comments(text)
  /\ no_trailing' = _strip_trailing_commas(no_comments')
  /\ data' = JsonLoads(no_trailing')
  /\ pc' = IF data'.ok THEN "parsed" ELSE "error"
  /\ UNCHANGED <<pass, text, cfg, out, first, heap, calls>>

\* format_json(data, cfg), lines 236-237
Format ==
  /\ pc = "parsed"
  /\ out' = format_json(data.val, cfg)
  /\ first' = IF pass = 1 THEN [val |-> data.val, out |-> out'] ELSE first
  /\ pc' = "formatted"
  /\ UNCHANGED <<pass, text, cfg, no_comments, no_trailing, data, heap, calls>>

\* The formatted text is formatted again
Feed ==
  /\ pc = "formatted"
  /\ pass = 1
  /\ text' = out
  /\ pass' = 2
  /\ pc' = "text"
  /\ UNCHANGED <<cfg, no_comments, no_trailing, data, out, first, heap, calls>>

Next == Parse \/ Format \/ Feed

Spec == Init /\ [][Next]_vars

SpecText == InitText /\ [][Next]_vars

\* The texts that open with a block comment whose body is a line-comment
\* marker: /*//*/ and then any text of the model's pieces
MarkerTexts == {<<"/", "*", "/", "/", "*", "/">> \o t : t \in Texts}

InitMarker == \E t \in MarkerTexts : Start(t, FormatConfig)

SpecMarker == InitMarker /\ [][Next]_vars

\* The pieces of the texts of brackets and commas: the brackets, the
\* comma, a space, a number and a key with its colon
BracketTokens ==
  { <<"[">>, <<"]">>, <<"{">>, <<"}">>, <<",">>, <<" ">>, <<"1">>,
    <<QUOTE, "a", QUOTE, ":">> }

MaxBracketTokens == 5

BracketTexts == {Cat(ts) : ts \in SeqsOf(BracketTokens, 0, MaxBracketTokens)}

InitCommas == \E t \in BracketTexts : Start(t, FormatConfig)

SpecCommas == InitCommas /\ [][Next]_vars

\* --------------------------------------------------------------- the calls

\* The calls in flight
Threads == DOMAIN calls

\* The objects a call allocates: the dict of _build_config, the FormatConfig
DictId(t) == "dict" \o ToString(t)
CfgId(t) == "cfg" \o ToString(t)

pipeline == <<pc, pass, text, cfg, no_comments, no_trailing, data, out, first>>

\* calls with the fields of call t set as in the record update
SetCall(t, update) ==
  [calls EXCEPT ![t] = [k \in DOMAIN calls[t] |->
                          IF k \in DOMAIN update THEN update[k] ELSE calls[t][k]]]

\* text.replace("\r\n", "\n").replace("\r", "\n"), line 302
NormalizeEol(t) ==
  LET kept == {i \in 1..Len(t) : ~(t[i] = CR /\ At(t, i + 1) = NL)}
      nth(j) == CHOOSE i \in kept : Cardinality({k \in kept : k <= i}) = j
  IN [j \in 1..Cardinality(kept) |-> IF t[nth(j)] = CR THEN NL ELSE t[nth(j)]]

\* parse_json_lenient(text) of format_text (api.py line 18) and of
\* _process_text (cli.py lines 302-303).  An error leaves the call: the
\* decoder's JSONDecodeError, or the interpreter's RecursionError when the
\* text nests deeper than the stack allows; format_text raises ValueError
\* in place of either (api.py lines 19-20).  A text that does not parse is
\* taken to fail before the stack does.
CallParse(t) ==
  /\ calls[t].pc = "parse"
  /\ LET c == calls[t]
         parsed == parse_json_lenient(IF c.kind = "main" THEN NormalizeEol(c.text)
                                      ELSE c.text)
         overflow == parsed.ok /\ ParseOverflows(parsed.val)
     IN calls' = SetCall(t, [data |-> IF overflow THEN NotYet ELSE parsed,
                             pc |-> IF ~parsed.ok \/ overflow THEN "raised"
                                    ELSE IF c.kind = "format_text" THEN "config"
                                    ELSE "render",
                             error |-> IF parsed.ok /\ ~overflow THEN ""
                                       ELSE IF c.kind = "format_text" THEN "ValueError"
                                       ELSE IF overflow THEN "RecursionError"
                                       ELSE "JSONDecodeError"])
  /\ UNCHANGED <<pipeline, heap>>

\* api.py line 23: an override is supplied
AnyOverride(ov) == DOMAIN ov # {}

\* ApiOverride where a falsy override (0, False) counts as not supplied
ApiOverrideFalsy(default, ov) ==
  [FormatConfig EXCEPT
        !.indent = IF "indent" \in DOMAIN ov /\ ov.indent # 0
                   THEN ov.indent ELSE default.indent,
        !.print_width = IF "print_width" \in DOMAIN ov /\ ov.print_width # 0
                        THEN ov.print_width ELSE default.print_width,
        !.array_wrap = default.array_wrap,
        !.object_wrap = default.object_wrap,
        !.aggressive_inline = IF "aggressive_inline" \in DOMAIN ov /\ ov.aggressive_inline
                              THEN ov.aggressive_inline ELSE default.aggressive_inline,
        !.long_block_threshold =
           IF "long_block_threshold" \in DOMAIN ov /\ ov.long_block_threshold # 0
           THEN ov.long_block_threshold ELSE default.long_block_threshold,
        !.eol = default.eol]

\* api.py lines 24-32: FormatConfig(...) of the overrides, the other seven
\* arguments read from DEFAULT_CFG, the remaining fields the class defaults
ApiOverride(default, ov) ==
  [FormatConfig EXCEPT
     !.indent = IF "indent" \in DOMAIN ov THEN ov.indent ELSE default.indent,
     !.print_width = IF "print_width" \in DOMAIN ov
                     THEN ov.print_width ELSE default.print_width,
     !.array_wrap = default.array_wrap,
     !.object_wrap = default.object_wrap,
     !.aggressive_inline = IF "aggressive_inline" \in DOMAIN ov
                           THEN ov.aggressive_inline ELSE default.aggressive_inline,
     !.long_block_threshold = IF "long_block_threshold" \in DOMAIN ov
                              THEN ov.long_block_threshold
                              ELSE default.long_block_threshold,
     !.eol = default.eol]

\* ApiCfgObject that writes the overrides into DEFAULT_CFG itself
ApiCfgShared(t, ov) == "DEFAULT_CFG"

\* api.py lines 22-24: the object cfg names: DEFAULT_CFG itself, or a new
\* FormatConfig when an override is supplied
ApiCfgObject(t, ov) == IF AnyOverride(ov) THEN CfgId(t) ELSE "DEFAULT_CFG"

\* api.py lines 22-32 of format_text
ApiConfig(t) ==
  /\ calls[t].pc = "config"
  /\ LET ov == calls[t].ov
         id == ApiCfgObject(t, ov)
     IN /\ heap' = IF AnyOverride(ov)
                   THEN HeapStore(heap, id, ApiOverride(heap["DEFAULT_CFG"], ov))
                   ELSE heap
        /\ calls' = SetCall(t, [cfg |-> id, pc |-> "render"])
  /\ UNCHANGED pipeline

\* format_json(data, cfg): api.py line 33, cli.py line 304, or the call of
\* format_json itself.  No line of _format_value or format_json counts the
\* nesting or handles an error: a value nested deeper than the stack allows
\* ends the call in the interpreter's RecursionError.
CallRender(t) ==
  /\ calls[t].pc = "render"
  /\ calls' = IF RenderOverflows(calls[t].data.val)
               THEN SetCall(t, [pc |-> "raised", error |-> "RecursionError"])
               ELSE SetCall(t, [result |-> format_json(calls[t].data.val,
                                                      heap[calls[t].cfg]),
                                pc |-> "done"])
  /\ UNCHANGED <<pipeline, heap>>

\* str.strip() of a piece of text
Strip(x) ==
  LET solid == {i \in 1..Len(x) : ~IsSpace(x[i])}
  IN IF solid = {} THEN <<>>
     ELSE SubSeq(x, MinOf(solid), CHOOSE i \in solid : \A j \in solid : j <= i)

\* x.split(","): the pieces between the commas
SplitCommas(x) ==
  LET cuts == {0, Len(x) + 1} \cup {i \in 1..Len(x) : x[i] = ","}
  IN {SubSeq(x, a + 1, b - 1) :
        <<a, b>> \in {p \in cuts \X cuts :
                        p[1] < p[2] /\ ~\E m \in cuts : p[1] < m /\ m < p[2]}}

\* Line 282: tuple(k.strip() for k in args.collapse_keys.split(",") if k.strip())
CollapseKeysOf(x) == {Strip(piece) : piece \in SplitCommas(x)} \ {<<>>}

\* Lines 276-282: the command line's values stored in the dict; an option
\* that was not given is None, a flag that was not given False, and
\* --collapse-keys counts only when its text is not empty
BuildOverrides(d, args) ==
  LET d1 == IF "indent" \in DOMAIN args THEN DictStore(d, "indent", args.indent) ELSE d
      d2 == IF "print_width" \in DOMAIN args
            THEN DictStore(d1, "print_width", args.print_width) ELSE d1
      d3 == IF "long_block" \in DOMAIN args
            THEN DictStore(d2, "long_block_threshold", args.long_block) ELSE d2
      d4 == IF args.no_aggressive THEN DictStore(d3, "aggressive_inline", FALSE) ELSE d3
      d5 == IF args.no_inline_homogeneous
            THEN DictStore(d4, "inline_homogeneous_objects", FALSE) ELSE d4
  IN IF "collapse_keys" \in DOMAIN args /\ args.collapse_keys # <<>>
     THEN DictStore(d5, "array_collapse_keys", CollapseKeysOf(args.collapse_keys))
     ELSE d5

\* _build_config(args) where the project file holds the dict project
_build_config(args, project) ==
  FormatConfigFrom(BuildOverrides(DictUpdate(DEFAULT_CONFIG, project), args))

\* BuildDictObject that works on DEFAULT_CONFIG itself
BuildDictShared(t) == "DEFAULT_CONFIG"

\* Line 273: DEFAULT_CONFIG.copy() is a new dict
BuildDictObject(t) == DictId(t)

\* Line 273 of _build_config
BuildCopy(t) ==
  /\ calls[t].pc = "copy"
  /\ LET id == BuildDictObject(t)
     IN /\ heap' = HeapStore(heap, id, heap["DEFAULT_CONFIG"])
        /\ calls' = SetCall(t, [dict |-> id, pc |-> "update"])
  /\ UNCHANGED pipeline

\* Lines 274-282 of _build_config: the project file's dict, then the
\* command line's values, written into the dict
BuildUpdate(t) ==
  /\ calls[t].pc = "update"
  /\ LET c == calls[t]
     IN heap' = HeapStore(heap, c.dict,
                          BuildOverrides(DictUpdate(heap[c.dict], c.project), c.args))
  /\ calls' = SetCall(t, [pc |-> "construct"])
  /\ UNCHANGED pipeline

\* Line 283 of _build_config: FormatConfig(**cfg), a TypeError leaves main
BuildConstruct(t) ==
  /\ calls[t].pc = "construct"
  /\ LET made == FormatConfigFrom(heap[calls[t].dict])
     IN IF made.ok
        THEN /\ heap' = HeapStore(heap, CfgId(t), made.val)
             /\ calls' = SetCall(t, [cfg |-> CfgId(t), pc |-> "parse"])
        ELSE /\ heap' = heap
             /\ calls' = SetCall(t, [pc |-> "raised", error |-> "TypeError"])
  /\ UNCHANGED pipeline

\* ------------------------------------------------- the inputs of the calls

MaxCalls == 2

\* {}
EmptyDict == [k \in {} |-> 0]

RECURSIVE PartialDicts(_, _)
\* The dicts that give some of the keys a value of the key's set in V
PartialDicts(V, keys) ==
  IF keys = {} THEN {EmptyDict}
  ELSE LET k == CHOOSE x \in keys : TRUE
           rest == PartialDicts(V, keys \ {k})
       IN rest \cup {DictStore(r, k, x) : r \in rest, x \in V[k]}

\* A call before its first step
NewCall(kind, at, t, ov, args, project, parsed, id, c) ==
  [kind |-> kind, pc |-> at, text |-> t, ov |-> ov, args |-> args,
   project |-> project, data |-> parsed, dict |-> "", cfg |-> id,
   given |-> c, result |-> <<>>, error |-> ""]

NoArgs == [no_aggressive |-> FALSE, no_inline_homogeneous |-> FALSE]

\* format_text(text, **ov)
FormatTextCall(t, ov) ==
  NewCall("format_text", "parse", t, ov, NoArgs, EmptyDict, NotYet, "", FormatConfig)

\* main(args + ["--stdin"]) with the text t on stdin and the dict project
\* in the project's vsjsonfmt.config.json
MainCall(args, project, t) ==
  NewCall("main", "copy", t, EmptyDict, args, project, NotYet, "", FormatConfig)

\* format_json(v, c) by caller i, who owns the FormatConfig c
FormatJsonCall(i, v, c) ==
  NewCall("format_json", "render", <<>>, EmptyDict, NoArgs, EmptyDict,
          Ok(v, 0), CfgId(i), c)

\* The heap when the calls cs start: the module-level objects and the
\* FormatConfig of every caller of format_json
HeapOf(cs) ==
  LET owners == {i \in DOMAIN cs : cs[i].kind = "format_json"}
  IN [id \in DOMAIN ModuleHeap \cup {CfgId(i) : i \in owners} |->
        IF id \in DOMAIN ModuleHeap THEN ModuleHeap[id]
        ELSE cs[CHOOSE i \in owners : CfgId(i) = id].given]

\* The value trees the calls format: an object that aggressive_inline, the
\* width, the threshold and the indent each lay out differently, with an
\* array under a collapse key; an array of two objects
CallValues ==
  { VObj(<< <<KA, VArr(<<VNum(12), VNum(12)>>)>>,
            <<KDrops, VArr(<<VNum(12), VNum(12)>>)>> >>),
    VArr(<<VObj(<< <<KA, VNum(12)>> >>), VObj(<< <<KA, VStr(SOdd)>> >>)>>) }

\* { "a": 12 "b": 12 }: a comma is missing
BrokenText ==
  <<"{">> \o DumpStr(KA) \o <<":", "1", "2", " ">> \o DumpStr(KB) \o <<":", "1", "2", "}">>

\* The texts passed to format_text: documents with a comment and trailing
\* commas, one with CRLF line ends, one that does not parse
CallTexts ==
  {<<"/", "*", "c", "*", "/">> \o WriteJsonc(v) : v \in CallValues}
    \cup {<<"[", CR, NL, "1", "2", ",", CR, NL, "]", CR, NL>>, BrokenText}

\* The keyword arguments of format_text
Overrides ==
  PartialDicts([indent |-> {0, 4}, print_width |-> {10},
                aggressive_inline |-> BOOLEAN, long_block_threshold |-> {0}],
               {"indent", "print_width", "aggressive_inline", "long_block_threshold"})

\* The command lines of main: each valued option given or not, each flag
\* given or not; --collapse-keys with an empty text, a key, and a text with
\* blanks and empty pieces
CommandLines ==
  {DictUpdate(valued, [no_aggressive |-> a, no_inline_homogeneous |-> h]) :
     valued \in PartialDicts([indent |-> {0}, print_width |-> {10}, long_block |-> {0},
                              collapse_keys |-> {<<>>, KA, <<" ">> \o KA \o
                                                   <<" ", ",", " ", ",">> \o KB}],
                             {"indent", "print_width", "long_block", "collapse_keys"}),
     a \in BOOLEAN, h \in BOOLEAN}

\* The dicts of the project's vsjsonfmt.config.json: {} when there is no
\* file or it is not JSON; "tabs" is no option
ProjectFiles ==
  PartialDicts([indent |-> {4}, print_width |-> {24}, aggressive_inline |-> {TRUE},
                array_collapse_keys |-> {{KA}}, eol |-> {<<CR, NL>>}, tabs |-> {4}],
               {"indent", "print_width", "aggressive_inline", "array_collapse_keys",
                "eol", "tabs"})

\* ------------------------------------------------ the calls' state machines

\* One call of format_text
InitFormatText ==
  /\ NoPipeline
  /\ \E t \in CallTexts, ov \in Overrides : calls = <<FormatTextCall(t, ov)>>
  /\ heap = HeapOf(calls)

NextFormatText ==
  \/ \E t \in Threads : CallParse(t)
  \/ \E t \in Threads : ApiConfig(t)
  \/ \E t \in Threads : CallRender(t)

SpecFormatText == InitFormatText /\ [][NextFormatText]_vars

\* The text main --stdin reads
StdinText == <<"/", "*", "c", "*", "/">> \o
             WriteJsonc(VObj(<< <<KA, VArr(<<VNum(12), VNum(12)>>)>>,
                                <<KDrops, VArr(<<VNum(12), VNum(12)>>)>> >>))

\* One run of main --stdin
InitCli ==
  /\ NoPipeline
  /\ \E args \in CommandLines, project \in ProjectFiles :
       calls = <<MainCall(args, project, StdinText)>>
  /\ heap = HeapOf(calls)

NextCli ==
  \/ \E t \in Threads : BuildCopy(t)
  \/ \E t \in Threads : BuildUpdate(t)
  \/ \E t \in Threads : BuildConstruct(t)
  \/ \E t \in Threads : CallParse(t)
  \/ \E t \in Threads : CallRender(t)

SpecCli == InitCli /\ [][NextCli]_vars

\* The calls caller i may make where several calls run at once
ConcurrentCalls(i) ==
  {FormatTextCall(StdinText, ov) :
     ov \in {EmptyDict, [indent |-> 4], [print_width |-> 10, aggressive_inline |-> FALSE]}}
    \cup {FormatTextCall(BrokenText, EmptyDict)}
    \cup {FormatJsonCall(i, v, c) :
            v \in CallValues, c \in {[FormatConfig EXCEPT !.print_width = 10]}}
    \cup {MainCall(NoArgs, EmptyDict, StdinText),
          MainCall(DictStore(NoArgs, "indent", 0), [print_width |-> 24], StdinText)}

\* MaxCalls calls in flight at once, in threads of one process
InitCalls ==
  /\ NoPipeline
  /\ calls \in {cs \in [1..MaxCalls -> UNION {ConcurrentCalls(i) : i \in 1..MaxCalls}] :
                  \A i \in 1..MaxCalls : cs[i] \in ConcurrentCalls(i)}
  /\ heap = HeapOf(calls)

NextCalls ==
  \/ \E t \in Threads : CallParse(t)
  \/ \E t \in Threads : ApiConfig(t)
  \/ \E t \in Threads : CallRender(t)
  \/ \E t \in Threads : BuildCopy(t)
  \/ \E t \in Threads : BuildUpdate(t)
  \/ \E t \in Threads : BuildConstruct(t)

SpecCalls == InitCalls /\ [][NextCalls]_vars

\* ------------------------------------------------------ main over files

\* _process_text(text, cfg), lines 301-304: the formatted text, or the
\* exception of the decoder or of the stack
_process_text(t, c) ==
  LET parsed == parse_json_lenient(NormalizeEol(t))
  IN IF ~parsed.ok \/ ParseOverflows(parsed.val) \/ RenderOverflows(parsed.val)
     THEN [ok |-> FALSE, out |-> <<>>]
     ELSE [ok |-> TRUE, out |-> format_json(parsed.val, c)]

\* NormOriginal that does not add the line end
NormOriginalAsIs(original) == NormalizeEol(original)

\* Lines 343-345: the original with LF line ends and a line end at its end
NormOriginal(original) ==
  LET lf == NormalizeEol(original)
  IN IF lf # <<>> /\ lf[Len(lf)] = NL THEN lf ELSE lf \o <<NL>>

\* _write_text(path, data), lines 11-16: what the file holds afterwards
WrittenText(written) == NormOriginal(written)

\* A file that _read_text cannot decode as UTF-8
Undecodable == <<"undecodable">>

\* _expand_files(paths), lines 285-299, for paths without wildcards: the
\* paths that are files, each once, in the order given
_expand_files(paths, fs) ==
  LET kept == {i \in 1..Len(paths) :
                 /\ paths[i] \in DOMAIN fs
                 /\ \A j \in 1..(i - 1) : paths[j] # paths[i]}
      nth(n) == CHOOSE i \in kept : Cardinality({k \in kept : k <= i}) = n
  IN [n \in 1..Cardinality(kept) |-> paths[nth(n)]]

\* main(argv) before its first step: the parsed command line, the dict of
\* the project's config file, the text on stdin and the files on disk
FilesCall(args, project, stdin, fs) ==
  [kind |-> "main", pc |-> "start", args |-> args, project |-> project,
   text |-> stdin, fs |-> fs, before |-> fs, cfg |-> FormatConfig,
   files |-> <<>>, i |-> 1, data |-> NotYet, formatted |-> <<>>,
   changed |-> 0, reported |-> {}, diffed |-> {}, written |-> {},
   stdout |-> <<>>, status |-> -1, error |-> ""]

\* Lines 325-335: _build_config, then --stdin, or the files to process
MainStart(t) ==
  /\ calls[t].pc = "start"
  /\ LET c == calls[t]
         made == _build_config(c.args, c.project)
         files == _expand_files(c.args.paths, c.fs)
     IN calls' =
          IF ~made.ok THEN SetCall(t, [pc |-> "raised", error |-> "TypeError"])
          ELSE IF c.args.stdin THEN SetCall(t, [cfg |-> made.val, pc |-> "read"])
          ELSE IF files = <<>> THEN SetCall(t, [cfg |-> made.val, pc |-> "returned",
                                                status |-> 2])
          ELSE SetCall(t, [cfg |-> made.val, pc |-> "read", files |-> files])
  /\ UNCHANGED <<pipeline, heap>>

\* The loop has passed the last file: lines 362-364, the exit status
MainReturn(t) ==
  /\ calls[t].pc = "read"
  /\ ~calls[t].args.stdin
  /\ calls[t].i > Len(calls[t].files)
  /\ calls' = SetCall(t, [pc |-> "returned",
                          status |-> IF calls[t].args.check /\ calls[t].changed > 0
                                     THEN 1 ELSE 0])
  /\ UNCHANGED <<pipeline, heap>>

\* sys.stdin.read() (line 328) or _read_text(f) (line 338, outside the
\* handler), then lines 302-303 of _process_text
MainRead(t) ==
  /\ calls[t].pc = "read"
  /\ calls[t].args.stdin \/ calls[t].i <= Len(calls[t].files)
  /\ LET c == calls[t]
         original == IF c.args.stdin THEN c.text ELSE c.fs[c.files[c.i]]
     IN calls' =
          IF original = Undecodable
          THEN SetCall(t, [pc |-> "raised", error |-> "UnicodeDecodeError"])
          ELSE SetCall(t, [data |-> parse_json_lenient(NormalizeEol(original)),
                           pc |-> "parsed"])
  /\ UNCHANGED <<pipeline, heap>>

\* Line 304 of _process_text.  An exception of the decoder or of the stack
\* leaves main under --stdin (no handler, line 328); in the loop it is
\* reported and the loop goes on (lines 339-342)
MainProcess(t) ==
  /\ calls[t].pc = "parsed"
  /\ LET c == calls[t]
         failed == \/ ~c.data.ok
                   \/ ParseOverflows(c.data.val)
                   \/ RenderOverflows(c.data.val)
     IN calls' =
          IF failed /\ c.args.stdin
            THEN SetCall(t, [pc |-> "raised",
                             error |-> IF c.data.ok THEN "RecursionError"
                                       ELSE "JSONDecodeError"])
          ELSE IF failed
            THEN SetCall(t, [reported |-> c.reported \cup {c.files[c.i]},
                             i |-> c.i + 1, pc |-> "read"])
          ELSE SetCall(t, [formatted |-> format_json(c.data.val, c.cfg),
                           pc |-> "formatted"])
  /\ UNCHANGED <<pipeline, heap>>

\* Lines 328-329: the text goes to stdout; lines 343-360: the file counts
\* as changed, its diff is shown, it is written
MainEmit(t) ==
  /\ calls[t].pc = "formatted"
  /\ LET c == calls[t]
         f == c.files[c.i]
     IN calls' =
          IF c.args.stdin
            THEN SetCall(t, [stdout |-> c.formatted, pc |-> "returned", status |-> 0])
          ELSE IF c.formatted = NormOriginal(c.fs[f])
            THEN SetCall(t, [i |-> c.i + 1, pc |-> "read"])
          ELSE SetCall(t, [changed |-> c.changed + 1,
                           diffed |-> IF c.args.diff /\ ~c.args.write
                                      THEN c.diffed \cup {f} ELSE c.diffed,
                           written |-> IF c.args.write
                                       THEN c.written \cup {f} ELSE c.written,
                           fs |-> IF c.args.write
                                  THEN [c.fs EXCEPT ![f] = WrittenText(c.formatted)]
                                  ELSE c.fs,
                           i |-> c.i + 1, pc |-> "read"])
  /\ UNCHANGED <<pipeline, heap>>

\* The paths on the command line: up to MaxPaths of two files and of a
\* path that is no file
MaxPaths == 2

FileNames == {"a.json", "b.json"}

\* What a file holds: a formatted document; the same with no line end at
\* its end and with a CRLF line end; a document that formatting changes; a
\* text that does not parse; bytes that are no UTF-8
FileTexts ==
  { <<"[", "1", "2", ",", " ", "1", "2", "]", NL>>,
    <<"[", "1", "2", ",", " ", "1", "2", "]">>,
    <<"[", "1", "2", ",", " ", "1", "2", "]", CR, NL>>,
    <<"[", "1", "2", ",", "1", "2", ",", "]", NL>>,
    BrokenText,
    Undecodable }

\* The command lines of main over files
FileCommandLines ==
  {DictUpdate(NoArgs, [paths |-> ps, write |-> w, check |-> k, diff |-> d, stdin |-> i]) :
     ps \in SeqsOf(FileNames \cup {"missing.json"}, 0, MaxPaths),
     w \in BOOLEAN, k \in BOOLEAN, d \in BOOLEAN, i \in BOOLEAN}

\* One run of main over the files of a directory
InitFiles ==
  /\ NoPipeline
  /\ \E args \in FileCommandLines,
        project \in {EmptyDict, [tabs |-> 4], [eol |-> <<CR, NL>>]},
        stdin \in {StdinText, BrokenText},
        fs \in [FileNames -> FileTexts] :
       calls = <<FilesCall(args, project, stdin, fs)>>
  /\ heap = ModuleHeap

NextFiles ==
  \/ \E t \in Threads : MainStart(t)
  \/ \E t \in Threads : MainRead(t)
  \/ \E t \in Threads : MainProcess(t)
  \/ \E t \in Threads : MainEmit(t)
  \/ \E t \in Threads : MainReturn(t)

SpecFiles == InitFiles /\ [][NextFiles]_vars

\* -------------------------------------------------------- the highlighter
\* gui.py, AsyncHighlighter over one text widget.  The objects are in the
\* heap: "self" (the highlighter), "st" (the widget's entry of
\* self._state), "events" (the threading.Event objects made so far, each
\* named by a number), "root" (the Tk main loop: its live timers and the
\* queue of its after(0, ...) callbacks) and "widget" (the text and the
\* tags on it).  The worker threads are the calls.  debounce, highlight,
\* set_enabled, the edits and apply_once run on the Tk thread, one at a
\* time; the steps of the workers interleave with them.

MaxVersion == 4

WidgetTexts == {<<"1">>, <<"[", "1", "]">>}

\* Lines 107-114, 122-129: the state after construction and the first
\* _state_for(widget)
HighlighterHeap ==
  [id \in {"self", "st", "events", "root", "widget"} |->
     IF id = "self" THEN [_enabled |-> TRUE]
     ELSE IF id = "st" THEN [pending |-> None, cancel |-> 0, version |-> 0]
     ELSE IF id = "events" THEN [made |-> 1, is_set |-> {}]
     ELSE IF id = "root" THEN [made |-> 0, timers |-> {}, queue |-> <<>>]
     ELSE [text |-> <<"1">>, tags |-> None]]

\* Lines 151-152 and 226: st["cancel"].set(); st["cancel"] = threading.Event()
NewCancel(events, st) ==
  [made |-> events.made + 1, is_set |-> events.is_set \cup {st.cancel}]

\* Lines 116-117
set_enabled(on) ==
  /\ heap' = [heap EXCEPT !["self"] = [_enabled |-> on]]
  /\ UNCHANGED <<pipeline, calls>>

\* The user changes the text of the widget
Edit ==
  /\ \E t \in WidgetTexts \ {heap["widget"].text} :
       heap' = [heap EXCEPT !["widget"] = [@ EXCEPT !.text = t]]
  /\ UNCHANGED <<pipeline, calls>>

\* Lines 141-156: the version is bumped, the cancel event is set and
\* replaced, the pending timer is cancelled and a new one is started
debounce ==
  /\ heap["self"]._enabled
  /\ heap["st"].version < MaxVersion
  /\ LET timer == heap["root"].made + 1
     IN heap' = [heap EXCEPT
                   !["st"] = [pending |-> timer,
                              cancel |-> heap["events"].made,
                              version |-> heap["st"].version + 1],
                   !["events"] = NewCancel(heap["events"], heap["st"]),
                   !["root"] = [@ EXCEPT !.made = timer,
                                         !.timers = (@ \ {heap["st"].pending})
                                                      \cup {timer}]]
  /\ UNCHANGED <<pipeline, calls>>

\* The worker thread that highlight starts, lines 238-253, with the
\* values its closure holds; applied_at is the version the widget's state
\* held when apply_once ran, -1 before that
Worker(version, cancel_evt, snippet) ==
  [kind |-> "worker", pc |-> "tokenize", version |-> version,
   cancel_evt |-> cancel_evt, snippet |-> snippet, spans |-> None,
   applied_at |-> -1]

\* The timer of line 156 fires and runs highlight, lines 221-253: it
\* returns at once when the highlighter is disabled; otherwise it bumps
\* the version, sets and replaces the cancel event, takes the text as the
\* snapshot and starts the worker
highlight ==
  /\ heap["root"].timers # {}
  /\ heap["st"].version < MaxVersion
  /\ \E timer \in heap["root"].timers :
       IF ~heap["self"]._enabled
         THEN /\ heap' = [heap EXCEPT !["root"] = [@ EXCEPT !.timers = @ \ {timer}]]
              /\ UNCHANGED calls
         ELSE /\ heap' = [heap EXCEPT
                            !["st"] = [@ EXCEPT !.cancel = heap["events"].made,
                                                !.version = @ + 1],
                            !["events"] = NewCancel(heap["events"], heap["st"]),
                            !["root"] = [@ EXCEPT !.timers = @ \ {timer}]]
              /\ calls' = Append(calls, Worker(heap["st"].version + 1,
                                               heap["events"].made,
                                               heap["widget"].text))
  /\ UNCHANGED pipeline

\* Line 240: spans = self._tokenize(snippet, want_full)
WorkerTokenize(t) ==
  /\ calls[t].kind = "worker"
  /\ calls[t].pc = "tokenize"
  /\ calls' = SetCall(t, [pc |-> "check", spans |-> calls[t].snippet])
  /\ UNCHANGED <<pipeline, heap>>

\* Lines 241-242: the worker returns when its cancel event is set or the
\* version is no longer its own
WorkerCheck(t) ==
  /\ calls[t].kind = "worker"
  /\ calls[t].pc = "check"
  /\ calls' = SetCall(t, [pc |-> IF \/ calls[t].cancel_evt \in heap["events"].is_set
                                    \/ heap["st"].version # calls[t].version
                                 THEN "returned" ELSE "schedule"])
  /\ UNCHANGED <<pipeline, heap>>

\* Line 250: self.root.after(0, apply_once)
WorkerSchedule(t) ==
  /\ calls[t].kind = "worker"
  /\ calls[t].pc = "schedule"
  /\ heap' = [heap EXCEPT !["root"] = [@ EXCEPT !.queue = Append(@, t)]]
  /\ calls' = SetCall(t, [pc |-> "returned"])
  /\ UNCHANGED pipeline

\* Lines 243-249: the main loop runs the first apply_once of its queue,
\* which puts the worker's spans on the widget
apply_once ==
  /\ heap["root"].queue # <<>>
  /\ LET t == Head(heap["root"].queue)
     IN /\ heap' = [heap EXCEPT !["root"] = [@ EXCEPT !.queue = Tail(@)],
                                !["widget"] = [@ EXCEPT !.tags = calls[t].spans]]
        /\ calls' = SetCall(t, [applied_at |-> heap["st"].version])
  /\ UNCHANGED pipeline

InitHighlight ==
  /\ NoPipeline
  /\ calls = <<>>
  /\ heap = HighlighterHeap

NextHighlight ==
  \/ debounce
  \/ highlight
  \/ \E on \in BOOLEAN : set_enabled(on)
  \/ Edit
  \/ \E t \in Threads : WorkerTokenize(t)
  \/ \E t \in Threads : WorkerCheck(t)
  \/ \E t \in Threads : WorkerSchedule(t)
  \/ apply_once

SpecHighlight == InitHighlight /\ [][NextHighlight]_vars

\* The kinds of the containers of a value nested up to MaxNest deep, the
\* outermost first
MaxNest == 6

RECURSIVE Nested(_)
\* The value of the containers kinds, one in the other, around the number 12
Nested(kinds) ==
  IF kinds = <<>> THEN VNum(12)
  ELSE IF Head(kinds) = "list" THEN VArr(<<Nested(Tail(kinds))>>)
  ELSE VObj(<< <<KA, Nested(Tail(kinds))>> >>)

\* The values nested up to MaxNest deep
NestedValues == {Nested(kinds) : kinds \in SeqsOf({"list", "dict"}, 0, MaxNest)}

\* One call of format_json or of format_text for a nested value
InitDeep ==
  /\ NoPipeline
  /\ \E v \in NestedValues, c \in {FormatConfig,
                                    [FormatConfig EXCEPT !.aggressive_inline = FALSE]} :
       calls \in {<<FormatJsonCall(1, v, c)>>, <<FormatTextCall(WriteJsonc(v), EmptyDict)>>}
  /\ heap = HeapOf(calls)

NextDeep ==
  \/ \E t \in Threads : CallParse(t)
  \/ \E t \in Threads : ApiConfig(t)
  \/ \E t \in Threads : CallRender(t)

SpecDeep == InitDeep /\ [][NextDeep]_vars

\* ----------------------------------------------------------------- claims

\* The calls of _format_value behind the formatted text of the state
Calls == EmittedCalls(data.val, cfg, 0, None)

\* C1  Idempotence: formatting the formatted text again succeeds and gives
\* the same text.
C1_Idempotent ==
  (pass = 2 /\ pc \in {"error", "formatted"}) => (pc = "formatted" /\ out = first.out)

\* A document with a comment and trailing commas whose formatted text spans
\* lines has been formatted twice.
C1_Witness ==
  /\ pass = 2
  /\ pc = "formatted"
  /\ HasNL(SubSeq(out, 1, Len(out) - 1))
  /\ IsDict(first.val)
  /\ \E i \in 1..Len(first.val.kvs) : IsList(first.val.kvs[i][2])

\* C2  Semantic round trip: the formatted text is valid JSON for the strict
\* decoder as it stands, and parse_json_lenient of it yields the value tree
\* that was formatted, object keys in the same order.
C2_RoundTrip ==
  /\ pc = "formatted" => (JsonLoads(out).ok /\ JsonLoads(out).val = data.val)
  /\ (pass = 2 /\ pc \in {"error", "parsed"}) => (data.ok /\ data.val = first.val)

\* The text of an object of two members, one a string with a quote and
\* comment-like sequences in it, has been parsed again.
C2_Witness ==
  /\ pass = 2
  /\ pc = "parsed"
  /\ IsDict(data.val)
  /\ Len(data.val.kvs) = 2
  /\ \E i \in 1..2 : data.val.kvs[i][2] = VStr(SOdd)

\* ------------------------------------------- the reader's state machine
\* Section 4.1 of the specification: one pass with the states Normal,
\* InString (with an escape flag), InLineComment and InBlockComment.

RECURSIVE MachineLabels(_, _, _, _)
\* The label of every position from i on (code, string or comment),
\* followed by the state the machine ends in
MachineLabels(s, i, st, esc) ==
  IF i > Len(s) THEN <<st>>
  ELSE IF st = "Normal" THEN
    IF s[i] = QUOTE THEN <<"string">> \o MachineLabels(s, i + 1, "InString", FALSE)
    ELSE IF s[i] = "/" /\ At(s, i + 1) = "/"
      THEN <<"comment", "comment">> \o MachineLabels(s, i + 2, "InLineComment", FALSE)
    ELSE IF s[i] = "/" /\ At(s, i + 1) = "*"
      THEN <<"comment", "comment">> \o MachineLabels(s, i + 2, "InBlockComment", FALSE)
    ELSE <<"code">> \o MachineLabels(s, i + 1, "Normal", FALSE)
  ELSE IF st = "InString" THEN
    <<"string">> \o
      (IF esc THEN MachineLabels(s, i + 1, "InString", FALSE)
       ELSE IF s[i] = BSL THEN MachineLabels(s, i + 1, "InString", TRUE)
       ELSE IF s[i] = QUOTE THEN MachineLabels(s, i + 1, "Normal", FALSE)
       ELSE MachineLabels(s, i + 1, "InString", FALSE))
  ELSE IF st = "InLineComment" THEN
    IF s[i] = NL THEN <<"code">> \o MachineLabels(s, i + 1, "Normal", FALSE)
    ELSE <<"comment">> \o MachineLabels(s, i + 1, "InLineComment", FALSE)
  ELSE
    IF s[i] = "*" /\ At(s, i + 1) = "/"
      THEN <<"comment", "comment">> \o MachineLabels(s, i + 2, "Normal", FALSE)
    ELSE <<"comment">> \o MachineLabels(s, i + 1, "InBlockComment", FALSE)

Labels(s) == MachineLabels(s, 1, "Normal", FALSE)

\* Every string literal and every block comment of s is closed
Terminated(s) == Labels(s)[Len(s) + 1] \in {"Normal", "InLineComment"}

\* The positions of s outside the comments
MachineKept(s) ==
  LET keep == {i \in 1..Len(s) : Labels(s)[i] # "comment"}
      nth[n \in 0..Len(s)] ==
        IF n = 0 THEN <<>>
        ELSE IF n \in keep THEN Append(nth[n - 1], n) ELSE nth[n - 1]
  IN nth[Len(s)]

\* The positions of text whose characters reach the strict decoder
Reaching ==
  LET k1 == StripCommentsKept(text)
      k2 == StripTrailingCommasKept(no_comments)
  IN [j \in 1..Len(k2) |-> k1[k2[j]]]

\* C3  String contents are never altered by the cleaning passes: every
\* character of every string literal of the text reaches the strict
\* decoder, wherever comments occur elsewhere in the text.
C3_StringsUnchanged ==
  (pass = 1 /\ pc # "text" /\ Terminated(text)) =>
    \A i \in 1..Len(text) :
      Labels(text)[i] = "string" => \E j \in 1..Len(Reaching) : Reaching[j] = i

\* C4  Comment stripping agrees with the single-pass state machine:
\* _strip_comments returns the text without its comments and with every
\* other character kept.
C4_StripMatchesMachine ==
  (pass = 1 /\ pc # "text" /\ Terminated(text)) =>
    no_comments = Select(text, MachineKept(text))

RECURSIVE InStringFlags(_, _, _, _)
\* Whether each position from i on lies inside a string literal (its quotes
\* included), by the quote and escape state alone
InStringFlags(s, i, in_string, esc) ==
  IF i > Len(s) THEN <<>>
  ELSE IF ~in_string
    THEN <<s[i] = QUOTE>> \o InStringFlags(s, i + 1, s[i] = QUOTE, FALSE)
  ELSE <<TRUE>> \o
         InStringFlags(s, i + 1, esc \/ s[i] # QUOTE, ~esc /\ s[i] = BSL)

\* The comma at position i is a trailing comma: it lies outside the string
\* literals and only whitespace separates it from a } or ]
TrailingComma(s, i) ==
  /\ s[i] = ","
  /\ ~InStringFlags(s, 1, FALSE, FALSE)[i]
  /\ \E j \in (i + 1)..Len(s) :
       /\ s[j] \in {"}", "]"}
       /\ \A k \in (i + 1)..(j - 1) : IsSpace(s[k])

\* C5  Trailing-comma removal: _strip_trailing_commas removes exactly the
\* trailing commas and leaves every other character, in order.
C5_TrailingCommas ==
  pc # "text" =>
    /\ Len(no_trailing) =
         Cardinality({i \in 1..Len(no_comments) : ~TrailingComma(no_comments, i)})
    /\ \A j \in 1..Len(StripTrailingCommasKept(no_comments)) :
         ~TrailingComma(no_comments, StripTrailingCommasKept(no_comments)[j])
    /\ \A j \in 1..(Len(StripTrailingCommasKept(no_comments)) - 1) :
         StripTrailingCommasKept(no_comments)[j]
           < StripTrailingCommasKept(no_comments)[j + 1]
    /\ no_trailing = Select(no_comments, StripTrailingCommasKept(no_comments))

\* A comma before whitespace and a bracket has been removed while a comma
\* before a bracket inside a string literal has been kept.
C5_Witness ==
  /\ pc # "text"
  /\ \E i \in 1..Len(no_comments) :
       /\ TrailingComma(no_comments, i)
       /\ IsSpace(At(no_comments, i + 1))
  /\ \E i \in 1..(Len(no_trailing) - 1) :
       no_trailing[i] = "," /\ no_trailing[i + 1] = "]"

\* C6  A parse error carries the line and column of the offending token in
\* the text passed to parse, also when comments or trailing commas were
\* removed before that token.
C6_ErrorPosition ==
  (pass = 1 /\ pc = "error" /\ data.pos <= Len(no_trailing)) =>
    /\ LineNo(no_trailing, data.pos) = LineNo(text, Reaching[data.pos])
    /\ ColNo(no_trailing, data.pos) = ColNo(text, Reaching[data.pos])

\* ------------------------------------------------------ the layout engine

RECURSIVE Nodes(_)
\* The number of values in the tree v
Nodes(v) ==
  IF v.t = "arr" THEN 1 + Len(Cat([i \in 1..Len(v.xs) |-> [j \in 1..Nodes(v.xs[i]) |-> 0]]))
  ELSE IF v.t = "obj"
    THEN 1 + Len(Cat([i \in 1..Len(v.kvs) |-> [j \in 1..Nodes(v.kvs[i][2]) |-> 0]]))
  ELSE 1

RECURSIVE SumOf(_)
SumOf(ns) == IF ns = <<>> THEN 0 ELSE Head(ns) + SumOf(Tail(ns))

RECURSIVE Pow2(_)
Pow2(n) == IF n = 0 THEN 1 ELSE 2 * Pow2(n - 1)

RECURSIVE NumCalls(_, _, _, _)
\* The number of calls of _format_value that the call (val, cfg, level,
\* parent_key) makes, itself included: the loop of lines 212-220 calls for
\* the container members up to the first whose text spans lines, the loops
\* of lines 200-201 and 228-229 for every element or member
NumCalls(val, c, level, parent_key) ==
  IF _is_prim(val) THEN 1
  ELSE IF IsList(val) THEN
    IF \/ WholeInlineApplies(val, c, level, parent_key)
       \/ PerElementApplies(val, c, level, parent_key)
       \/ HomogApplies(val, c)
       \/ PrimCollapseApplies(val, c, level)
    THEN 1
    ELSE 1 + SumOf([i \in 1..Len(val.xs) |-> NumCalls(val.xs[i], c, level + 1, None)])
  ELSE
    LET items == val.kvs
        spans(i) == /\ ~_is_prim(items[i][2])
                    /\ HasNL(_format_value(items[i][2], c, level, items[i][1]))
        tried(i) == /\ ObjectCollapseTried(val, c)
                    /\ ~_is_prim(items[i][2])
                    /\ \A j \in 1..(i - 1) : ~spans(j)
    IN 1 + SumOf([i \in 1..Len(items) |->
                    IF tried(i) THEN NumCalls(items[i][2], c, level, items[i][1])
                    ELSE 0])
         + (IF ObjectOneLine(val, c, level) # None THEN 0
            ELSE SumOf([i \in 1..Len(items) |->
                          NumCalls(items[i][2], c, level + 1, items[i][1])]))

\* The default multi-line form of a container at a level
DefaultForm(v, c, level) ==
  IF IsList(v)
  THEN Block("[", "]",
             [i \in 1..Len(v.xs) |-> _format_value(v.xs[i], c, level + 1, None)],
             c, level)
  ELSE Block("{", "}",
             [i \in 1..Len(v.kvs) |->
                DumpStr(v.kvs[i][1]) \o <<":", " ">>
                  \o _format_value(v.kvs[i][2], c, level + 1, v.kvs[i][1])],
             c, level)

C7_PreserveWitness ==
  /\ pc = "formatted"
  /\ cfg.object_wrap = "preserve"
  /\ IsDict(data.val)
  /\ data.val.kvs # <<>>
  /\ Len(_dump_oneline(data.val)) + 4 <= cfg.print_width
  /\ out = DefaultForm(data.val, cfg, 0) \o cfg.eol

\* The arrays of primitives among the calls whose single-line form fits the
\* width at the level of the call
FittingPrimArrays ==
  {call \in Calls :
     /\ IsList(call[1])
     /\ \A i \in 1..Len(call[1].xs) : _is_prim(call[1].xs[i])
     /\ Len(PrimOneLine(call[1])) + call[2] * cfg.indent <= cfg.print_width}

\* C8 as claimed  Width-fit guarantee: every array of primitives whose
\* single-line form fits the width is rendered on exactly one line.
C8_WidthFitAsClaimed ==
  pc = "formatted" =>
    \A call \in FittingPrimArrays :
      ~HasNL(_format_value(call[1], cfg, call[2], call[3]))

\* C8  Width-fit guarantee, amended: every non-empty array of primitives
\* whose single-line form fits the width is rendered on exactly one line
\* when it is not the value of a collapse key, array_wrap is collapse and
\* long_block_threshold is at least 1; and when it is the value of a
\* collapse key and allow_overflow_inline_arrays is set or the spaced line,
\* two characters longer, fits as well.
C8_WidthFit ==
  pc = "formatted" =>
    \A call \in FittingPrimArrays :
      LET v == call[1]
          how == _format_value(v, cfg, call[2], call[3])
          spacedFits == Len(PrimOneLine(v)) + 2 + call[2] * cfg.indent <= cfg.print_width
      IN /\ (/\ v.xs # <<>>
             /\ call[3] \notin cfg.array_collapse_keys
             /\ cfg.array_wrap = "collapse"
             /\ cfg.long_block_threshold >= 1)
              => how = PrimOneLine(v)
         /\ (/\ v.xs # <<>>
             /\ call[3] \in cfg.array_collapse_keys
             /\ (cfg.allow_overflow_inline_arrays \/ spacedFits))
              => ~HasNL(how)

\* An array of two primitives one level deep fills the width to the last
\* column and is on one line.
C8_Witness ==
  /\ pc = "formatted"
  /\ \E call \in FittingPrimArrays :
       /\ Len(call[1].xs) = 2
       /\ call[2] = 1
       /\ call[3] = KA
       /\ cfg.array_wrap = "collapse"
       /\ Len(PrimOneLine(call[1])) + call[2] * cfg.indent = cfg.print_width
       /\ _format_value(call[1], cfg, call[2], call[3]) = PrimOneLine(call[1])

\* An array of primitives under a collapse key is on one line where the
\* width may not be overflowed.
C8_CollapseKeyWitness ==
  /\ pc = "formatted"
  /\ \E call \in FittingPrimArrays :
       /\ call[3] = KDrops
       /\ call[1].xs # <<>>
       /\ ~cfg.allow_overflow_inline_arrays
       /\ ~HasNL(_format_value(call[1], cfg, call[2], call[3]))

\* An array of objects with the first element's ordered keys and small
\* primitive member values, of at least inline_homogeneous_min elements
HomogeneousAsClaimed(v, c) ==
  /\ IsList(v)
  /\ Len(v.xs) >= c.inline_homogeneous_min
  /\ \A i \in 1..Len(v.xs) :
       /\ IsDict(v.xs[i])
       /\ [j \in 1..Len(v.xs[i].kvs) |-> v.xs[i].kvs[j][1]]
            = [j \in 1..Len(v.xs[1].kvs) |-> v.xs[1].kvs[j][1]]
       /\ \A j \in 1..Len(v.xs[i].kvs) :
            /\ v.xs[i].kvs[j][2].t \in {"null", "bool", "num", "str"}
            /\ v.xs[i].kvs[j][2].t = "str"
                 => Len(v.xs[i].kvs[j][2].s) <= c.inline_string_max

\* '[', one compact single-line object per element on its own line,
\* indented one level, then ']'
OneObjectPerLine(v, c, level) ==
  Block("[", "]",
        [i \in 1..Len(v.xs) |->
           <<"{", " ">>
             \o Join(<<",", " ">>,
                     [j \in 1..Len(v.xs[i].kvs) |->
                        DumpStr(v.xs[i].kvs[j][1]) \o <<":", " ">>
                          \o _dump_oneline(v.xs[i].kvs[j][2])])
             \o <<" ", "}">>],
        c, level)

\* C9 as claimed  Homogeneous-object-array rule: with the rule on and no
\* collapse key applying, every such array is rendered one compact object
\* per line.
C9_HomogeneousAsClaimed ==
  pc = "formatted" =>
    \A call \in Calls :
      (/\ cfg.inline_homogeneous_objects
       /\ call[3] \notin cfg.array_collapse_keys
       /\ HomogeneousAsClaimed(call[1], cfg))
        => _format_value(call[1], cfg, call[2], call[3])
             = OneObjectPerLine(call[1], cfg, call[2])

\* C9  Homogeneous-object-array rule, amended: with the rule on, every
\* non-empty such array whose elements have at least one key, rendered by a
\* call whose parent key is no collapse key, is rendered one compact object
\* per line, whatever print_width is.
C9_Homogeneous ==
  pc = "formatted" =>
    \A call \in Calls :
      (/\ cfg.inline_homogeneous_objects
       /\ call[3] \notin cfg.array_collapse_keys
       /\ HomogeneousAsClaimed(call[1], cfg)
       /\ call[1].xs # <<>>
       /\ call[1].xs[1].kvs # <<>>)
        => _format_value(call[1], cfg, call[2], call[3])
             = OneObjectPerLine(call[1], cfg, call[2])

\* An array of two objects of two members has been rendered one object per
\* line, two levels deep, where one such line alone exceeds the width.
C9_Witness ==
  /\ pc = "formatted"
  /\ cfg.inline_homogeneous_objects
  /\ cfg.print_width = 10
  /\ \E call \in Calls :
       /\ call[3] \notin cfg.array_collapse_keys
       /\ call[2] = 1
       /\ HomogeneousAsClaimed(call[1], cfg)
       /\ Len(call[1].xs) = 2
       /\ Len(call[1].xs[1].kvs) = 2
       /\ _format_value(call[1], cfg, call[2], call[3])
            = OneObjectPerLine(call[1], cfg, call[2])

RECURSIVE Inline(_)
\* The inline form of a value: brackets and braces padded by a space,
\* members and elements separated by a comma and a space
Inline(v) ==
  IF v.t = "arr"
    THEN <<"[", " ">> \o Join(<<",", " ">>, [i \in 1..Len(v.xs) |-> Inline(v.xs[i])])
                      \o <<" ", "]">>
  ELSE IF v.t = "obj"
    THEN <<"{", " ">>
           \o Join(<<",", " ">>,
                   [i \in 1..Len(v.kvs) |->
                      DumpStr(v.kvs[i][1]) \o <<":", " ">> \o Inline(v.kvs[i][2])])
           \o <<" ", "}">>
  ELSE _dump_oneline(v)

RECURSIVE Compactable(_, _)
\* An element that has a compact form: a primitive, an object whose member
\* values are all small primitives, an array of such elements
Compactable(v, c) ==
  IF v.t = "arr" THEN \A i \in 1..Len(v.xs) : Compactable(v.xs[i], c)
  ELSE IF v.t = "obj"
    THEN \A i \in 1..Len(v.kvs) :
           /\ v.kvs[i][2].t \notin {"arr", "obj"}
           /\ v.kvs[i][2].t = "str" => Len(v.kvs[i][2].s) <= c.inline_string_max
  ELSE TRUE

\* { "requireStacks": [ { "code": "x" }, { "code": "y" } ] } and the eol
RequireStacksLine ==
  <<"{", " ">> \o DumpStr(KRequireStacks) \o <<":", " ", "[", " ">>
    \o <<"{", " ", QUOTE, "c", "o", "d", "e", QUOTE, ":", " ", QUOTE, "x", QUOTE, " ", "}">>
    \o <<",", " ">>
    \o <<"{", " ", QUOTE, "c", "o", "d", "e", QUOTE, ":", " ", QUOTE, "y", QUOTE, " ", "}">>
    \o <<" ", "]", " ", "}", NL>>

\* The arrays under a collapse key among the calls whose inline line fits
\* the width, or may overflow it
CollapseKeyArrays ==
  {call \in Calls :
     /\ IsList(call[1])
     /\ call[3] \in cfg.array_collapse_keys
     /\ \/ cfg.allow_overflow_inline_arrays
        \/ Len(Inline(call[1])) + call[2] * cfg.indent <= cfg.print_width}

\* C10 as claimed  Collapse-key inline form: an array under a collapse key
\* is rendered as one inline line whenever that line fits the width or
\* allow_overflow_inline_arrays is set.
C10_CollapseKeyInlineAsClaimed ==
  pc = "formatted" =>
    \A call \in CollapseKeyArrays :
      _format_value(call[1], cfg, call[2], call[3]) = Inline(call[1])

\* C10  Collapse-key inline form, amended: an array under a collapse key
\* whose elements all have a compact form is rendered as one inline line
\* whenever that line fits the width or allow_overflow_inline_arrays is
\* set, whatever array_wrap is; the requireStacks example renders as its
\* single line under the default configuration.
C10_CollapseKeyInline ==
  pc = "formatted" =>
    /\ \A call \in CollapseKeyArrays :
         Compactable(call[1], cfg)
           => _format_value(call[1], cfg, call[2], call[3]) = Inline(call[1])
    /\ (data.val = RequireStacksExample /\ cfg = FormatConfig)
         => out = RequireStacksLine

\* Under array_wrap = preserve an array of two objects under a collapse key
\* is on one inline line that overflows the width.
C10_Witness ==
  /\ pc = "formatted"
  /\ cfg.array_wrap = "preserve"
  /\ \E call \in CollapseKeyArrays :
       /\ Len(call[1].xs) = 2
       /\ IsDict(call[1].xs[1])
       /\ Compactable(call[1], cfg)
       /\ Len(Inline(call[1])) + call[2] * cfg.indent > cfg.print_width
       /\ _format_value(call[1], cfg, call[2], call[3]) = Inline(call[1])

\* The requireStacks example has been formatted under the defaults.
C10_ExampleWitness ==
  pc = "formatted" /\ data.val = RequireStacksExample /\ cfg = FormatConfig
    /\ out = RequireStacksLine

RECURSIVE InlineAccepted(_, _, _)
\* Strategy 1(a) of an array: every element has an inline form (a
\* primitive, an object of small primitives, an array that is accepted in
\* turn) and the inline line fits the width at the level or may overflow
InlineAccepted(v, c, level) ==
  /\ \A i \in 1..Len(v.xs) :
       \/ v.xs[i].t \in {"null", "bool", "num", "str"}
       \/ v.xs[i].t = "obj" /\ Compactable(v.xs[i], c)
       \/ v.xs[i].t = "arr" /\ InlineAccepted(v.xs[i], c, level)
  /\ \/ c.allow_overflow_inline_arrays
     \/ Len(Inline(v)) + level * c.indent <= c.print_width

\* An element that strategy 1(b) can put on a line of its own, one level
\* deeper than the array
ElementCompacts(el, c, level) ==
  \/ el.t \in {"null", "bool", "num", "str"}
  \/ el.t = "obj" /\ Compactable(el, c)
  \/ el.t = "arr" /\ InlineAccepted(el, c, level + 1)

\* The form collapse-key compaction gives an array: the inline line, else
\* one inline element per line, else none
CollapseKeyForm(v, c, level) ==
  IF InlineAccepted(v, c, level) THEN Inline(v)
  ELSE IF \A i \in 1..Len(v.xs) : ElementCompacts(v.xs[i], c, level)
    THEN Block("[", "]", [i \in 1..Len(v.xs) |-> Inline(v.xs[i])], c, level)
  ELSE None

\* The form the first strategy whose preconditions hold gives an array
FirstStrategyForm(v, c, level, parent_key) ==
  IF parent_key \in c.array_collapse_keys /\ CollapseKeyForm(v, c, level) # None
    THEN CollapseKeyForm(v, c, level)
  ELSE IF /\ c.inline_homogeneous_objects
          /\ HomogeneousAsClaimed(v, c)
          /\ v.xs # <<>>
          /\ v.xs[1].kvs # <<>>
    THEN OneObjectPerLine(v, c, level)
  ELSE IF /\ c.array_wrap = "collapse"
          /\ v.xs # <<>>
          /\ \A i \in 1..Len(v.xs) : v.xs[i].t \in {"null", "bool", "num", "str"}
          /\ Len(PrimOneLine(v)) + level * c.indent <= c.print_width
          /\ 1 <= c.long_block_threshold
    THEN PrimOneLine(v)
  ELSE DefaultForm(v, c, level)

\* C11  Array strategies are tried in the order collapse-key compaction,
\* homogeneous-object-array compaction, plain primitive collapse, default,
\* and the first whose preconditions hold gives the output; an array under
\* a collapse key whose elements can all be compacted is rendered by
\* collapse-key compaction, also when the homogeneous rule or the
\* primitive collapse holds of it.
C11_StrategyOrder ==
  pc = "formatted" =>
    \A call \in Calls :
      IsList(call[1]) =>
        LET v == call[1]
            how == _format_value(v, cfg, call[2], call[3])
        IN /\ how = FirstStrategyForm(v, cfg, call[2], call[3])
           /\ (/\ call[3] \in cfg.array_collapse_keys
               /\ \A i \in 1..Len(v.xs) : ElementCompacts(v.xs[i], cfg, call[2]))
                => how = IF \/ cfg.allow_overflow_inline_arrays
                            \/ Len(Inline(v)) + call[2] * cfg.indent <= cfg.print_width
                         THEN Inline(v)
                         ELSE Block("[", "]", [i \in 1..Len(v.xs) |-> Inline(v.xs[i])],
                                    cfg, call[2])

\* An array of primitives under a collapse key whose plain one-line form
\* fits the width has been rendered one element per line by collapse-key
\* compaction, its spaced inline line not fitting.
C11_Witness ==
  /\ pc = "formatted"
  /\ cfg.array_wrap = "collapse"
  /\ \E call \in FittingPrimArrays :
       /\ call[3] = KDrops
       /\ call[1].xs # <<>>
       /\ ~InlineAccepted(call[1], cfg, call[2])
       /\ _format_value(call[1], cfg, call[2], call[3])
            = Block("[", "]",
                    [i \in 1..Len(call[1].xs) |-> _dump_oneline(call[1].xs[i])],
                    cfg, call[2])

\* An array under a collapse key of which the homogeneous rule holds is on
\* one inline line.
C11_HomogeneousWitness ==
  /\ pc = "formatted"
  /\ cfg.inline_homogeneous_objects
  /\ \E call \in Calls :
       /\ call[3] = KDrops
       /\ HomogeneousAsClaimed(call[1], cfg)
       /\ call[1].xs # <<>>
       /\ call[1].xs[1].kvs # <<>>
       /\ _format_value(call[1], cfg, call[2], call[3]) = Inline(call[1])

\* C12  With object_wrap = preserve every non-empty object of the output is
\* in the default multi-line form: every brace that opens a non-empty
\* object ends its line, also in a homogeneous object array and in an
\* array under a collapse key.
C12_PreserveObjects ==
  (pc = "formatted" /\ cfg.object_wrap = "preserve") =>
    LET in_string == InStringFlags(out, 1, FALSE, FALSE)
    IN \A i \in 1..(Len(out) - 3) :
         (/\ out[i] = "{"
          /\ ~in_string[i]
          /\ SubSeq(out, i + 1, i + 3) # <<" ", " ", "}">>)
           => out[i + 1] = NL

\* C13  The text of format_json is the rendering of the root value and then
\* cfg.eol exactly once: the rendering does not end with a line terminator
\* and nothing follows the eol.
C13_SingleEol ==
  pc = "formatted" =>
    LET rendering == _format_value(data.val, cfg, 0, None)
        n == Len(rendering)
    IN /\ n > 0
       /\ rendering[n] \notin {NL, CR}
       /\ Len(out) = n + Len(cfg.eol)
       /\ SubSeq(out, 1, n) = rendering
       /\ SubSeq(out, n + 1, Len(out)) = cfg.eol

\* A rendering of several lines has been ended by a two-character eol.
C13_Witness ==
  /\ pc = "formatted"
  /\ cfg.eol = <<CR, NL>>
  /\ HasNL(_format_value(data.val, cfg, 0, None))
  /\ SubSeq(out, Len(out) - 2, Len(out)) = <<"]", CR, NL>>

\* ---------------------------------------------------------------- the calls

\* The documented configuration of a call of format_text: every supplied
\* override, the default of every other option
OverriddenDefaults(ov) ==
  [k \in DOMAIN FormatConfig |-> IF k \in DOMAIN ov THEN ov[k] ELSE FormatConfig[k]]

\* C14  format_text(text, overrides) is render(parse(text), cfg): it returns
\* format_json(parse_json_lenient(text), cfg) where cfg has every supplied
\* override and the documented default of every other option; when the
\* text does not parse it raises and returns no text.
C14_FormatText ==
  \A t \in Threads :
    LET c == calls[t]
        parsed == parse_json_lenient(c.text)
    IN c.kind = "format_text" =>
         /\ c.pc = "done" =>
              /\ parsed.ok
              /\ c.result = format_json(parsed.val, OverriddenDefaults(c.ov))
         /\ c.pc = "raised" => (~parsed.ok /\ c.result = <<>>)
         /\ c.pc \in {"config", "render"} => parsed.ok

\* format_text has returned for a text with a comment under the overrides
\* indent = 0 and aggressive_inline = False, and the text it returned is
\* not the one the defaults give.
C14_Witness ==
  \E t \in Threads :
    /\ calls[t].kind = "format_text"
    /\ calls[t].pc = "done"
    /\ calls[t].text[1] = "/"
    /\ DOMAIN calls[t].ov = {"indent", "aggressive_inline"}
    /\ calls[t].ov.indent = 0
    /\ ~calls[t].ov.aggressive_inline
    /\ calls[t].result # format_json(parse_json_lenient(calls[t].text).val, FormatConfig)

\* format_text has raised for the text with the missing comma.
C14_RaisedWitness ==
  \E t \in Threads :
    calls[t].kind = "format_text" /\ calls[t].pc = "raised" /\ calls[t].text = BrokenText

\* What the call c gives when no other call runs: the text it returns, or
\* raised when it ends in an error
Alone(c) ==
  LET source == IF c.kind = "main" THEN NormalizeEol(c.text) ELSE c.text
      parsed == IF c.kind = "format_json" THEN c.data ELSE parse_json_lenient(source)
      made == IF c.kind = "main" THEN _build_config(c.args, c.project)
              ELSE IF c.kind = "format_json" THEN [ok |-> TRUE, val |-> c.given]
              ELSE [ok |-> TRUE,
                    val |-> IF AnyOverride(c.ov) THEN ApiOverride(FormatConfig, c.ov)
                            ELSE FormatConfig]
  IN IF made.ok /\ parsed.ok
     THEN [raised |-> FALSE, result |-> format_json(parsed.val, made.val)]
     ELSE [raised |-> TRUE, result |-> <<>>]

\* The module-level defaults are as they were at import, the FormatConfig
\* of every caller of format_json is the one the caller made, and every
\* call that has ended ended as it does alone
C15_AsAlone ==
  /\ heap["DEFAULT_CFG"] = FormatConfig
  /\ heap["DEFAULT_CONFIG"] = DEFAULT_CONFIG
  /\ \A t \in Threads :
       LET c == calls[t]
       IN /\ c.kind = "format_json" => heap[c.cfg] = c.given
          /\ c.pc = "done" => (~Alone(c).raised /\ c.result = Alone(c).result)
          /\ c.pc = "raised" => (Alone(c).raised /\ c.result = <<>>)

\* No step of any call changes the value tree or the configuration another
\* call (or the same call, once it has them) works on
C15_InputsKept ==
  \A t \in Threads :
    /\ calls[t].data.ok => calls'[t].data = calls[t].data
    /\ calls[t].cfg # "" => /\ calls'[t].cfg = calls[t].cfg
                            /\ heap'[calls[t].cfg] = heap[calls[t].cfg]

\* C15  parse and render share no mutable state: under any interleaving
\* of calls of format_text, format_json and main every call ends as it does
\* when it runs alone, and no call changes its input value tree, its
\* configuration, DEFAULT_CFG or DEFAULT_CONFIG.
C15_NoSharedState == []C15_AsAlone /\ [][C15_InputsKept]_vars

\* Two calls of format_text have returned, one with overrides and one with
\* none (its cfg is DEFAULT_CFG itself), and they returned different texts
\* for the same text.
C15_Witness ==
  \E t \in Threads, u \in Threads :
    /\ calls[t].kind = "format_text" /\ calls[u].kind = "format_text"
    /\ calls[t].pc = "done" /\ calls[u].pc = "done"
    /\ AnyOverride(calls[t].ov) /\ ~AnyOverride(calls[u].ov)
    /\ calls[u].cfg = "DEFAULT_CFG"
    /\ calls[t].text = calls[u].text
    /\ calls[t].result # calls[u].result

\* A run of main with --indent 0 and a project file has printed its text
\* while a call of format_json by a caller with a FormatConfig of its own
\* has returned.
C15_MainWitness ==
  \E t \in Threads, u \in Threads :
    /\ calls[t].kind = "main" /\ calls[t].pc = "done"
    /\ "indent" \in DOMAIN calls[t].args
    /\ calls[u].kind = "format_json" /\ calls[u].pc = "done"
    /\ calls[t].result # calls[u].result

\* The options the command line args gives a value, with the value: a
\* valued option that is present, a --no-... flag that is present
Explicit(args) ==
  LET given == {k \in {"indent", "print_width"} : k \in DOMAIN args}
                 \cup (IF "long_block" \in DOMAIN args THEN {"long_block_threshold"} ELSE {})
                 \cup (IF "collapse_keys" \in DOMAIN args THEN {"array_collapse_keys"} ELSE {})
                 \cup (IF args.no_aggressive THEN {"aggressive_inline"} ELSE {})
                 \cup (IF args.no_inline_homogeneous
                       THEN {"inline_homogeneous_objects"} ELSE {})
  IN [k \in given |->
        CASE k = "long_block_threshold" -> args.long_block
          [] k = "array_collapse_keys" -> CollapseKeysOf(args.collapse_keys)
          [] k \in {"aggressive_inline", "inline_homogeneous_objects"} -> FALSE
          [] OTHER -> args[k]]

\* C16  Configuration precedence in the CLI: every option of the resolved
\* FormatConfig has the command line's value when the command line gives
\* one, otherwise the project file's value when the file defines it,
\* otherwise the built-in default.
C16_Precedence ==
  \A t \in Threads :
    (calls[t].kind = "main" /\ calls[t].cfg # "") =>
      \A k \in DOMAIN FormatConfig :
        heap[calls[t].cfg][k] =
          IF k \in DOMAIN Explicit(calls[t].args) THEN Explicit(calls[t].args)[k]
          ELSE IF k \in DOMAIN calls[t].project THEN calls[t].project[k]
          ELSE FormatConfig[k]

\* The value a call works on: the value tree passed to format_json, the
\* value of the text passed to format_text or main
InputValue(c) ==
  IF c.kind = "format_json" THEN c.data.val
  ELSE parse_json_lenient(IF c.kind = "main" THEN NormalizeEol(c.text) ELSE c.text).val

\* C17  Rendering or parsing a value nested deeper than the recursion
\* limit ends in a distinct DepthExceeded error outcome, and not in the
\* failure of the stack.
C17_DepthExceeded ==
  \A t \in Threads :
    (calls[t].pc \in {"done", "raised"} /\ RenderOverflows(InputValue(calls[t]))) =>
      (calls[t].pc = "raised" /\ calls[t].error = "DepthExceeded")

\* The arrays under a collapse key among the calls whose whole inline form
\* is rejected
RejectedInline ==
  {call \in Calls : /\ IsList(call[1])
                    /\ call[3] \in cfg.array_collapse_keys
                    /\ ~InlineAccepted(call[1], cfg, call[2])}

\* C18  Collapse-key per-element compaction is all-or-nothing: an array
\* under a collapse key whose whole inline form is rejected is rendered one
\* compact element per line exactly when every element can be compacted;
\* when an element cannot, the array is rendered as the same array is
\* with no collapse key, and no element is compacted by the strategy.
C18_AllOrNothing ==
  pc = "formatted" =>
    \A call \in RejectedInline :
      LET v == call[1]
          how == _format_value(v, cfg, call[2], call[3])
      IN IF \A i \in 1..Len(v.xs) : ElementCompacts(v.xs[i], cfg, call[2])
         THEN how = Block("[", "]", [i \in 1..Len(v.xs) |-> Inline(v.xs[i])],
                          cfg, call[2])
         ELSE how = _format_value(v, cfg, call[2], None)

\* An array under a collapse key whose first element can be compacted and
\* whose second cannot has been rendered in the default form, the first
\* element on lines of its own form and not compacted.
C18_Witness ==
  /\ pc = "formatted"
  /\ \E call \in RejectedInline :
       /\ Len(call[1].xs) = 2
       /\ IsList(call[1].xs[1])
       /\ call[1].xs[1].xs # <<>>
       /\ ElementCompacts(call[1].xs[1], cfg, call[2])
       /\ ~ElementCompacts(call[1].xs[2], cfg, call[2])
       /\ _format_value(call[1], cfg, call[2], call[3])
            = Block("[", "]",
                    [i \in 1..2 |-> _format_value(call[1].xs[i], cfg, call[2] + 1, None)],
                    cfg, call[2])
       /\ _format_value(call[1].xs[1], cfg, call[2] + 1, None) # Inline(call[1].xs[1])

\* An array under a collapse key whose elements can all be compacted and
\* whose whole inline form does not fit is one compact element per line.
C18_PerElementWitness ==
  /\ pc = "formatted"
  /\ \E call \in RejectedInline :
       /\ \E i \in 1..Len(call[1].xs) : ~_is_prim(call[1].xs[i])
       /\ \A i \in 1..Len(call[1].xs) : ElementCompacts(call[1].xs[i], cfg, call[2])
       /\ _format_value(call[1], cfg, call[2], call[3])
            = Block("[", "]", [i \in 1..Len(call[1].xs) |-> Inline(call[1].xs[i])],
                    cfg, call[2])

\* The objects among the calls that are rendered on a single line: the
\* multi-line form of lines 226-231 has a line end even when the object is
\* empty, so these are the objects the object collapse renders
CollapsedObjects ==
  {call \in Calls : /\ IsDict(call[1])
                    /\ ~HasNL(_format_value(call[1], cfg, call[2], call[3]))}

\* "{ " + ", ".join(key: rendering of the member at the level) + " }"
JoinedLine(v, c, level) ==
  <<"{", " ">>
    \o Join(<<",", " ">>,
            [i \in 1..Len(v.kvs) |->
               DumpStr(v.kvs[i][1]) \o <<":", " ">>
                 \o _format_value(v.kvs[i][2], c, level, v.kvs[i][1])])
    \o <<" ", "}">>

\* C19  An object is rendered by the object collapse only if object_wrap
\* is collapse, it is not empty, every member's rendering is a single line,
\* and the joined line of length L has L + level * indent <= print_width
\* and 1 <= long_block_threshold: every single-line object of the strategy
\* meets the width rule at its level, also when
\* allow_overflow_inline_arrays is set.
C19_ObjectCollapse ==
  pc = "formatted" =>
    \A call \in CollapsedObjects :
      LET v == call[1]
          one == _format_value(v, cfg, call[2], call[3])
      IN /\ cfg.object_wrap = "collapse"
         /\ v.kvs # <<>>
         /\ \A i \in 1..Len(v.kvs) :
              ~HasNL(_format_value(v.kvs[i][2], cfg, call[2], v.kvs[i][1]))
         /\ one = JoinedLine(v, cfg, call[2])
         /\ Len(one) + call[2] * cfg.indent <= cfg.print_width
         /\ 1 <= cfg.long_block_threshold

\* With allow_overflow_inline_arrays set, an object one level deep with an
\* array member under a collapse key is on a single line that fits, the
\* array's inline line inside it.
C19_Witness ==
  /\ pc = "formatted"
  /\ cfg.allow_overflow_inline_arrays
  /\ \E call \in CollapsedObjects :
       /\ call[2] > 0
       /\ \E i \in 1..Len(call[1].kvs) :
            /\ IsList(call[1].kvs[i][2])
            /\ call[1].kvs[i][2].xs # <<>>
            /\ call[1].kvs[i][1] \in cfg.array_collapse_keys

\* With allow_overflow_inline_arrays set and object_wrap = collapse, an
\* object of primitives whose joined line does not fit the width is
\* rendered one pair per line.
C19_RejectedWitness ==
  /\ pc = "formatted"
  /\ cfg.allow_overflow_inline_arrays
  /\ cfg.object_wrap = "collapse"
  /\ cfg.long_block_threshold >= 1
  /\ \E call \in Calls \ CollapsedObjects :
       /\ IsDict(call[1])
       /\ call[1].kvs # <<>>
       /\ \A i \in 1..Len(call[1].kvs) : _is_prim(call[1].kvs[i][2])
       /\ Len(JoinedLine(call[1], cfg, call[2])) + call[2] * cfg.indent > cfg.print_width

\* The object has a member that is an array or an object
HasContainerMember(v) ==
  \E i \in 1..Len(v.kvs) : v.kvs[i][2].t \in {"arr", "obj"}

RECURSIVE ObjectsWithin(_)
\* The objects an array holds as elements, at any depth of arrays
ObjectsWithin(v) ==
  UNION {IF v.xs[i].t = "obj" THEN {v.xs[i]}
         ELSE IF v.xs[i].t = "arr" THEN ObjectsWithin(v.xs[i])
         ELSE {} : i \in 1..Len(v.xs)}

\* C20  With aggressive_inline unset, an object that has an array or an
\* object as a member is never on a single line: an object rendered by a
\* call of its own spans lines unless every member is a primitive, and the
\* objects an array renders in its compact forms (no call is made for
\* them) have primitives as members only.
C20_NoInlineOfContainers ==
  (pc = "formatted" /\ ~cfg.aggressive_inline) =>
    \A call \in Calls :
      /\ (IsDict(call[1]) /\ HasContainerMember(call[1]))
           => HasNL(_format_value(call[1], cfg, call[2], call[3]))
      /\ (IsList(call[1]) /\ EmittedCalls(call[1], cfg, call[2], call[3]) = {call})
           => \A o \in ObjectsWithin(call[1]) : ~HasContainerMember(o)

\* With aggressive_inline unset and object_wrap = collapse, an object whose
\* only member is an array rendered on one line spans lines although its
\* joined line fits the width.
C20_Witness ==
  /\ pc = "formatted"
  /\ ~cfg.aggressive_inline
  /\ cfg.object_wrap = "collapse"
  /\ cfg.long_block_threshold >= 1
  /\ \E call \in Calls :
       /\ IsDict(call[1])
       /\ Len(call[1].kvs) = 1
       /\ IsList(call[1].kvs[1][2])
       /\ call[1].kvs[1][2].xs # <<>>
       /\ ~HasNL(_format_value(call[1].kvs[1][2], cfg, call[2] + 1, call[1].kvs[1][1]))
       /\ Len(JoinedLine(call[1], cfg, call[2])) + call[2] * cfg.indent <= cfg.print_width
       /\ HasNL(_format_value(call[1], cfg, call[2], call[3]))

\* With aggressive_inline unset, an array under a collapse key that holds
\* an object with an array as a member is rendered in the default form,
\* a call made for the object.
C20_ArrayWitness ==
  /\ pc = "formatted"
  /\ ~cfg.aggressive_inline
  /\ \E call \in Calls :
       /\ IsList(call[1])
       /\ call[3] \in cfg.array_collapse_keys
       /\ \E o \in ObjectsWithin(call[1]) :
            HasContainerMember(o) /\ <<o, call[2] + 1, None>> \in Calls

\* The members <<object, level, i>> of the objects among the calls whose
\* collapse attempt was made and given up for the default form, that the
\* attempt rendered (it stops at the first member that spans lines) on a
\* single line, and that are containers
SingleLineInAttempt ==
  {m \in UNION {{<<call[1], call[2], i>> : i \in 1..Len(call[1].kvs)} :
                  call \in {x \in Calls : IsDict(x[1])}} :
     LET v == m[1]
         candidate(i) == _format_value(v.kvs[i][2], cfg, m[2], v.kvs[i][1])
     IN /\ ObjectCollapseTried(v, cfg)
        /\ HasNL(_format_value(v, cfg, m[2], None))
        /\ v.kvs[m[3]][2].t \in {"arr", "obj"}
        /\ \A j \in 1..m[3] : ~HasNL(candidate(j))}

\* C21 as claimed: a member that is a container and renders as a single
\* line in its parent's collapse attempt is the same single line in the
\* output when the parent falls back to the default form.
C21_ChildKeepsLineAsClaimed ==
  pc = "formatted" =>
    \A m \in SingleLineInAttempt :
      LET k == m[1].kvs[m[3]][1]
          member == m[1].kvs[m[3]][2]
      IN _format_value(member, cfg, m[2] + 1, k) = _format_value(member, cfg, m[2], k)

\* C21  A member that is a container and renders as a single line of
\* length L in its parent's collapse attempt is the same single line in
\* the output when the parent falls back to the default form, provided
\* that L + (level + 1) * indent <= print_width, the width rule at the level
\* the default form gives the member, or that the member is an array under
\* a collapse key and allow_overflow_inline_arrays is set.
C21_ChildKeepsLine ==
  pc = "formatted" =>
    \A m \in SingleLineInAttempt :
      LET k == m[1].kvs[m[3]][1]
          member == m[1].kvs[m[3]][2]
          line == _format_value(member, cfg, m[2], k)
      IN (\/ Len(line) + (m[2] + 1) * cfg.indent <= cfg.print_width
          \/ /\ member.t = "arr"
             /\ k \in cfg.array_collapse_keys
             /\ cfg.allow_overflow_inline_arrays)
           => _format_value(member, cfg, m[2] + 1, k) = line

\* An object has fallen back to the default form and its member, an array
\* of two primitives under a plain key, is on the single line of the
\* collapse attempt, which fits one level deeper.
C21_Witness ==
  /\ pc = "formatted"
  /\ \E m \in SingleLineInAttempt :
       LET k == m[1].kvs[m[3]][1]
           member == m[1].kvs[m[3]][2]
           line == _format_value(member, cfg, m[2], k)
       IN /\ member.t = "arr"
          /\ Len(member.xs) = 2
          /\ k \notin cfg.array_collapse_keys
          /\ Len(line) + (m[2] + 1) * cfg.indent <= cfg.print_width
          /\ _format_value(member, cfg, m[2] + 1, k) = line

\* C22  The stripping passes never fail: for every text, also one whose
\* last string literal or block comment is not terminated, _strip_comments
\* and _strip_trailing_commas return a text, and for a text that is not
\* terminated the strict decoder raises the parse error.
C22_DecoderRaises ==
  (pass = 1 /\ pc # "text") =>
    /\ Len(no_trailing) <= Len(no_comments)
    /\ Len(no_comments) <= Len(text)
    /\ ~Terminated(text) => (pc = "error" /\ ~data.ok)

\* Where the line comment that runs to the end of s starts: the first //
\* that follows code and has no line end after it (no position when s
\* does not end in a line comment)
EofCommentStarts(s) ==
  LET starts == {i \in 1..Len(s) - 1 :
                   /\ s[i] = "/" /\ s[i + 1] = "/"
                   /\ Labels(SubSeq(s, 1, i - 1))[i] = "Normal"
                   /\ \A j \in i..Len(s) : s[j] # NL}
  IN {i \in starts : \A j \in starts : i <= j}

\* C23  A line comment that runs to the end of the text with no line end
\* after it is removed in full by _strip_comments: the document followed
\* by the comment is stripped to what the document alone is stripped to,
\* and parses to the same value.
C23_EofLineComment ==
  (pass = 1 /\ pc # "text") =>
    \A i \in EofCommentStarts(text) :
      LET document == SubSeq(text, 1, i - 1)
          alone == parse_json_lenient(document)
      IN /\ no_comments = _strip_comments(document)
         /\ data.ok = alone.ok
         /\ data.ok => data.val = alone.val

\* --------------------------------------------------------- main over files

\* The configuration main resolves for the run c
Resolved(c) == _build_config(c.args, c.project).val

\* The files the command line of c resolves to
InputFiles(c) ==
  {c.args.paths[i] : i \in {j \in 1..Len(c.args.paths) : c.args.paths[j] \in DOMAIN c.before}}

\* The formatted text of file f differs from its original with LF line
\* ends and a line end at its end
Differs(c, f) ==
  LET original == c.before[f]
      lf == NormalizeEol(original)
      terminated == IF lf # <<>> /\ lf[Len(lf)] = NL THEN lf ELSE lf \o <<NL>>
  IN /\ original # Undecodable
     /\ _process_text(original, Resolved(c)).ok
     /\ _process_text(original, Resolved(c)).out # terminated

\* File f does not parse
FailsToParse(c, f) ==
  c.before[f] # Undecodable /\ ~_process_text(c.before[f], Resolved(c)).ok

\* C24  CLI exit status: main returns 2 when not in --stdin mode and no
\* input file resolves, 1 exactly when --check is given and the formatted
\* text of a processed file differs from its normalized original, and 0
\* otherwise; a file that fails to parse is reported, is not counted as
\* changed, and the files after it are processed.
C24_ExitStatus ==
  \A t \in Threads :
    LET c == calls[t]
    IN (c.kind = "main" /\ c.pc \in {"returned", "raised"}) =>
         /\ c.pc = "returned"
         /\ c.status = IF ~c.args.stdin /\ InputFiles(c) = {} THEN 2
                       ELSE IF /\ ~c.args.stdin
                               /\ c.args.check
                               /\ \E f \in InputFiles(c) : Differs(c, f)
                         THEN 1
                       ELSE 0
         /\ ~c.args.stdin =>
              /\ c.reported = {f \in InputFiles(c) : FailsToParse(c, f)}
              /\ c.changed = Cardinality({f \in InputFiles(c) : Differs(c, f)})
              /\ c.i = Len(c.files) + 1

\* C25  CLI write frame: main writes a file only if --write is given,
\* the file parsed and its formatted text differs from its normalized
\* original; every other file holds what it held before the run.
C25_WriteFrame ==
  \A t \in Threads :
    LET c == calls[t]
    IN c.kind = "main" =>
         /\ \A f \in c.written :
              c.args.write /\ f \in InputFiles(c) /\ Differs(c, f)
         /\ \A f \in DOMAIN c.fs :
              f \notin c.written => c.fs[f] = c.before[f]

\* main --write has returned from two files: it has rewritten the one
\* that formatting changes, and has left alone the one that holds the
\* formatted document without a line end at its end.
C25_Witness ==
  \E t \in Threads :
    LET c == calls[t]
    IN /\ c.pc = "returned"
       /\ c.args.write
       /\ c.args.paths = <<"a.json", "b.json">>
       /\ c.written = {"a.json"}
       /\ c.fs["a.json"] # c.before["a.json"]
       /\ c.before["b.json"] = <<"[", "1", "2", ",", " ", "1", "2", "]">>
       /\ c.fs["b.json"] = c.before["b.json"]

\* main has returned from a file that does not parse and a file that
\* formatting changes, with neither --write nor a change on disk.
C25_ErrorWitness ==
  \E t \in Threads :
    LET c == calls[t]
    IN /\ c.pc = "returned"
       /\ ~c.args.write
       /\ c.args.paths = <<"a.json", "b.json">>
       /\ c.reported = {"a.json"}
       /\ c.changed = 1
       /\ c.fs = c.before

\* ------------------------------------------------------- empty containers

RECURSIVE Occurrences(_, _, _, _)
\* The arrays and objects of the value v under the key `key`, each with
\* its key (None for the document and for an element of an array) and
\* with whether it lies within an array that is the member of a collapse key
Occurrences(v, key, within, c) ==
  IF _is_prim(v) THEN {}
  ELSE {<<v, key, within>>} \cup
    IF IsList(v)
      THEN UNION {Occurrences(v.xs[i], None, within \/ UnderCollapseKey(c, key), c) :
                    i \in 1..Len(v.xs)}
      ELSE UNION {Occurrences(v.kvs[i][2], v.kvs[i][1], within, c) :
                    i \in 1..Len(v.kvs)}

\* An empty object, or an empty array that is not under a collapse key
EmptyContainer(v, key, c) ==
  \/ IsDict(v) /\ v.kvs = <<>>
  \/ IsList(v) /\ v.xs = <<>> /\ ~UnderCollapseKey(c, key)

\* Opening bracket, newline, newline, the indent of the level, closing bracket
EmptyForm(v, c, level) ==
  <<IF IsDict(v) THEN "{" ELSE "[", NL, NL>>
    \o Spaces(c.indent * level)
    \o <<IF IsDict(v) THEN "}" ELSE "]">>

\* An object that has an empty object, or an empty array not under a
\* collapse key, as a member is not rendered by the object collapse
NoCollapseOverEmpty ==
  \A call \in CollapsedObjects :
    \A i \in 1..Len(call[1].kvs) :
      ~EmptyContainer(call[1].kvs[i][2], call[1].kvs[i][1], cfg)

\* C26 as stated: every empty object of the document, and every empty
\* array of it that is not under a collapse key, is rendered as opening
\* bracket, newline, newline, current indent, closing bracket; an object
\* with such a member is never rendered by the object collapse.
C26_EmptyAsClaimed ==
  pc = "formatted" =>
    /\ \A occ \in Occurrences(data.val, None, FALSE, cfg) :
         EmptyContainer(occ[1], occ[2], cfg) =>
           \E call \in Calls :
             /\ call[1] = occ[1]
             /\ call[3] = occ[2]
             /\ _format_value(call[1], cfg, call[2], call[3])
                  = EmptyForm(call[1], cfg, call[2])
    /\ NoCollapseOverEmpty

\* C26  Empty containers are never rendered on one line by a call of
\* _format_value: the call for an empty object, and the call for an empty
\* array that is not under a collapse key, returns opening bracket,
\* newline, newline, current indent, closing bracket; the empty containers
\* that no call renders are within an array under a collapse key; an
\* object with such a member is never rendered by the object collapse.
C26_EmptyByCall ==
  pc = "formatted" =>
    /\ \A call \in Calls :
         EmptyContainer(call[1], call[3], cfg) =>
           _format_value(call[1], cfg, call[2], call[3])
             = EmptyForm(call[1], cfg, call[2])
    /\ \A occ \in Occurrences(data.val, None, FALSE, cfg) :
         (/\ EmptyContainer(occ[1], occ[2], cfg)
          /\ ~\E call \in Calls : call[1] = occ[1] /\ call[3] = occ[2]) => occ[3]
    /\ NoCollapseOverEmpty

\* {"a": {}} is formatted: the collapse of the object is tried and given
\* up, and its member is rendered one level down as an opening bracket,
\* two line ends, the indent and the closing bracket.
C26_Witness ==
  /\ pc = "formatted"
  /\ data.val = VObj(<< <<KA, VObj(<<>>)>> >>)
  /\ ObjectCollapseTried(data.val, cfg)
  /\ <<VObj(<<>>), 1, KA>> \in Calls
  /\ out = <<"{", NL>> \o Spaces(cfg.indent) \o DumpStr(KA) \o <<":", " ">>
             \o <<"{", NL, NL>> \o Spaces(cfg.indent) \o <<"}", NL, "}">> \o cfg.eol

\* {"drops": [{}, {}]} is formatted on one line: the empty objects are
\* rendered by _compact_object as "{  }".
C26_CompactWitness ==
  /\ pc = "formatted"
  /\ data.val = VObj(<< <<KDrops, VArr(<<VObj(<<>>), VObj(<<>>)>>)>> >>)
  /\ KDrops \in cfg.array_collapse_keys
  /\ out = <<"{", " ">> \o DumpStr(KDrops)
             \o <<":", " ", "[", " ", "{", " ", " ", "}", ",", " ",
                  "{", " ", " ", "}", " ", "]", " ", "}">> \o cfg.eol

\* ------------------------------------------------ commas before a bracket

\* The text has been read: no_comments, no_trailing and data are those of text
TextRead == pc \in {"parsed", "error", "formatted"}

\* The positions of s outside its string literals
OutsideStrings(s) ==
  {k \in 1..Len(s) : ~InStringFlags(s, 1, FALSE, FALSE)[k]}

\* Only whitespace lies between positions i and j of s
OnlySpaceBetween(s, i, j) == \A k \in (i + 1)..(j - 1) : IsSpace(s[k])

\* The comma at k is the only content, whitespace aside, between an
\* opening bracket and a closing bracket of s
LoneComma(s, k) ==
  /\ k \in OutsideStrings(s)
  /\ s[k] = ","
  /\ \E i \in 1..(k - 1) : s[i] \in {"[", "{"} /\ OnlySpaceBetween(s, i, k)
  /\ \E j \in (k + 1)..Len(s) : s[j] \in {"]", "}"} /\ OnlySpaceBetween(s, k, j)

\* Commas at k and k + 1, and then a closing bracket after whitespace only
TwoCommas(s, k) ==
  /\ k \in OutsideStrings(s)
  /\ k + 1 <= Len(s)
  /\ s[k] = ","
  /\ s[k + 1] = ","
  /\ \E j \in (k + 2)..Len(s) : s[j] \in {"]", "}"} /\ OnlySpaceBetween(s, k + 1, j)

\* s without its character at k
Without(s, k) == SubSeq(s, 1, k - 1) \o SubSeq(s, k + 1, Len(s))

\* s is open, whitespace, comma, whitespace, close
LoneCommaText(s, open, close) ==
  /\ Len(s) >= 3
  /\ s[1] = open
  /\ s[Len(s)] = close
  /\ \E k \in 2..(Len(s) - 1) :
       /\ s[k] = ","
       /\ \A i \in 2..(Len(s) - 1) : i # k => IsSpace(s[i])

\* C27  A comma that is the only non-whitespace content between an opening
\* bracket and its closing bracket is removed by _strip_trailing_commas,
\* so [,] and { , } parse to the empty array and the empty object; of two
\* consecutive commas before a closing bracket the first is left, and the
\* text remains a parse error.
C27_LoneComma ==
  TextRead =>
    /\ \A k \in 1..Len(no_comments) :
         LoneComma(no_comments, k) =>
           /\ k \notin {StripTrailingCommasKept(no_comments)[i] :
                          i \in 1..Len(StripTrailingCommasKept(no_comments))}
           /\ Len(no_trailing) < Len(no_comments)
    /\ LoneCommaText(text, "[", "]") =>
         /\ \E k \in 1..Len(text) : text[k] = "," /\ no_trailing = Without(text, k)
         /\ data.ok
         /\ data.val = VArr(<<>>)
    /\ LoneCommaText(text, "{", "}") =>
         /\ \E k \in 1..Len(text) : text[k] = "," /\ no_trailing = Without(text, k)
         /\ data.ok
         /\ data.val = VObj(<<>>)
    /\ \A k \in 1..Len(no_comments) :
         TwoCommas(no_comments, k) =>
           /\ \E i \in 1..Len(StripTrailingCommasKept(no_comments)) :
                StripTrailingCommasKept(no_comments)[i] = k
           /\ \A i \in 1..Len(StripTrailingCommasKept(no_comments)) :
                StripTrailingCommasKept(no_comments)[i] # k + 1
           /\ ~data.ok

\* { , } has been read: the comma is gone and the value is the empty object.
C27_Witness ==
  /\ pc = "parsed"
  /\ text = <<"{", " ", ",", " ", "}">>
  /\ no_trailing = <<"{", " ", " ", "}">>
  /\ data.val = VObj(<<>>)

\* [1,,] has been read: one comma is left and the decoder has failed.
C27_TwoCommasWitness ==
  /\ pc = "error"
  /\ text = <<"[", "1", ",", ",", "]">>
  /\ no_trailing = <<"[", "1", ",", "]">>
  /\ ~data.ok

\* ---------------------------------------------------- stale highlights

\* C28  Stale highlight results are never applied: the tags computed from
\* a snapshot are put on the widget only if no debounce() or highlight()
\* call has been made since the snapshot was taken, that is, only while
\* the version is still the one the snapshot's highlight() call set.
C28_NoStaleApply ==
  \A t \in Threads :
    (calls[t].kind = "worker" /\ calls[t].applied_at # -1) =>
      calls[t].applied_at = calls[t].version

====
